---- MODULE Spec2Model ----
(***************************************************************************)
(* Reckoning Radar agent pipeline (src/pipeline.py): the three oracle      *)
(* stages' response parsing and the Record Writer, write_to_database,      *)
(* over a relational store with keyed upsert, insert and select.           *)
(*                                                                         *)
(* Text is a sequence of characters, so that strip(), lower() and          *)
(* substring tests are computed and not assumed.  A dict is a function     *)
(* from keys to values; dict.get(k, d) is Get.  Python's None is the empty *)
(* sequence and a present optional value v is <<v>>.                       *)
(***************************************************************************)
EXTENDS Integers, Sequences, FiniteSets, TLC

\* ------------------------------------------------------------------ bounds
MaxWrites   == 2   \* write_to_database calls with freshly chosen outputs
MaxRewrites == 1   \* write_to_database calls that repeat the previous outputs
MaxPersons  == 2   \* entries of verified_persons in one output
MaxItems    == 3   \* entries of all lists of one output together
MaxTokens  == 1   \* input_tokens, output_tokens of one oracle response
MaxBatch   == 3   \* URLs of one process_batch call

\* -------------------------------------------------------------------- text
None == <<>>
Some(v) == <<v>>

Get(d, k, default) == IF k \in DOMAIN d THEN d[k] ELSE default

\* A character is a string: itself when it is a printable ASCII character or one
\* of \t \n \f \r, and "U+" with its code point in hexadecimal (four digits at
\* least) when it is any other character; the grave accent, which a TLA+ string
\* cannot hold, is "U+0060".
HexDigits == <<"0","1","2","3","4","5","6","7","8","9","A","B","C","D","E","F">>

RECURSIVE HexOf(_, _)
HexOf(n, width) ==
    IF n = 0 /\ width <= 0 THEN ""
    ELSE HexOf(n \div 16, width - 1) \o HexDigits[(n % 16) + 1]

\* the printable ASCII characters, U+0020 to U+007E
Ascii == <<
    " ","!","\"","#","$","%","&","'","(",")","*","+",",","-",".","/","0",
    "1","2","3","4","5","6","7","8","9",":",";","<","=",">","?","@","A","B",
    "C","D","E","F","G","H","I","J","K","L","M","N","O","P","Q","R","S","T",
    "U","V","W","X","Y","Z","[","\\","]","^","_","U+0060","a","b","c","d",
    "e","f","g","h","i","j","k","l","m","n","o","p","q","r","s","t","u","v",
    "w","x","y","z","{","|","}","~" >>

\* chr(n)
Chr(n) ==
    IF n \in 32..126 THEN Ascii[n - 31]
    ELSE CASE n = 9  -> "\t"
           [] n = 10 -> "\n"
           [] n = 12 -> "\f"
           [] n = 13 -> "\r"
           [] OTHER  -> "U+" \o HexOf(n, 4)

\* the characters of the code points in the ranges <<first, last>>
CharsOf(ranges) ==
    UNION { { Chr(n) : n \in ranges[r][1]..ranges[r][2] } : r \in DOMAIN ranges }

\* str.lower() on the cased characters it changes to one other character:
\* <<first, last, step, delta>> sends the code points first, first + step, ...,
\* last to themselves plus delta
LowerRanges == <<
    <<65, 90, 1, 32>>, <<192, 214, 1, 32>>, <<216, 222, 1, 32>>,
    <<256, 302, 2, 1>>, <<306, 310, 2, 1>>, <<313, 327, 2, 1>>,
    <<330, 374, 2, 1>>, <<376, 376, 1, -121>>, <<377, 381, 2, 1>>,
    <<385, 385, 1, 210>>, <<386, 388, 2, 1>>, <<390, 390, 1, 206>>,
    <<391, 391, 1, 1>>, <<393, 394, 1, 205>>, <<395, 395, 1, 1>>,
    <<398, 398, 1, 79>>, <<399, 399, 1, 202>>, <<400, 400, 1, 203>>,
    <<401, 401, 1, 1>>, <<403, 403, 1, 205>>, <<404, 404, 1, 207>>,
    <<406, 406, 1, 211>>, <<407, 407, 1, 209>>, <<408, 408, 1, 1>>,
    <<412, 412, 1, 211>>, <<413, 413, 1, 213>>, <<415, 415, 1, 214>>,
    <<416, 420, 2, 1>>, <<422, 422, 1, 218>>, <<423, 423, 1, 1>>,
    <<425, 425, 1, 218>>, <<428, 428, 1, 1>>, <<430, 430, 1, 218>>,
    <<431, 431, 1, 1>>, <<433, 434, 1, 217>>, <<435, 437, 2, 1>>,
    <<439, 439, 1, 219>>, <<440, 440, 1, 1>>, <<444, 444, 1, 1>>,
    <<452, 452, 1, 2>>, <<453, 453, 1, 1>>, <<455, 455, 1, 2>>,
    <<456, 456, 1, 1>>, <<458, 458, 1, 2>>, <<459, 475, 2, 1>>,
    <<478, 494, 2, 1>>, <<497, 497, 1, 2>>, <<498, 500, 2, 1>>,
    <<502, 502, 1, -97>>, <<503, 503, 1, -56>>, <<504, 542, 2, 1>>,
    <<544, 544, 1, -130>>, <<546, 562, 2, 1>>, <<570, 570, 1, 10795>>,
    <<571, 571, 1, 1>>, <<573, 573, 1, -163>>, <<574, 574, 1, 10792>>,
    <<577, 577, 1, 1>>, <<579, 579, 1, -195>>, <<580, 580, 1, 69>>,
    <<581, 581, 1, 71>>, <<582, 590, 2, 1>>, <<880, 882, 2, 1>>,
    <<886, 886, 1, 1>>, <<895, 895, 1, 116>>, <<902, 902, 1, 38>>,
    <<904, 906, 1, 37>>, <<908, 908, 1, 64>>, <<910, 911, 1, 63>>,
    <<913, 929, 1, 32>>, <<931, 939, 1, 32>>, <<975, 975, 1, 8>>,
    <<984, 1006, 2, 1>>, <<1012, 1012, 1, -60>>, <<1015, 1015, 1, 1>>,
    <<1017, 1017, 1, -7>>, <<1018, 1018, 1, 1>>, <<1021, 1023, 1, -130>>,
    <<1024, 1039, 1, 80>>, <<1040, 1071, 1, 32>>, <<1120, 1152, 2, 1>>,
    <<1162, 1214, 2, 1>>, <<1216, 1216, 1, 15>>, <<1217, 1229, 2, 1>>,
    <<1232, 1326, 2, 1>>, <<1329, 1366, 1, 48>>, <<4256, 4293, 1, 7264>>,
    <<4295, 4295, 1, 7264>>, <<4301, 4301, 1, 7264>>,
    <<5024, 5103, 1, 38864>>, <<5104, 5109, 1, 8>>,
    <<7312, 7354, 1, -3008>>, <<7357, 7359, 1, -3008>>,
    <<7680, 7828, 2, 1>>, <<7838, 7838, 1, -7615>>, <<7840, 7934, 2, 1>>,
    <<7944, 7951, 1, -8>>, <<7960, 7965, 1, -8>>, <<7976, 7983, 1, -8>>,
    <<7992, 7999, 1, -8>>, <<8008, 8013, 1, -8>>, <<8025, 8031, 2, -8>>,
    <<8040, 8047, 1, -8>>, <<8072, 8079, 1, -8>>, <<8088, 8095, 1, -8>>,
    <<8104, 8111, 1, -8>>, <<8120, 8121, 1, -8>>, <<8122, 8123, 1, -74>>,
    <<8124, 8124, 1, -9>>, <<8136, 8139, 1, -86>>, <<8140, 8140, 1, -9>>,
    <<8152, 8153, 1, -8>>, <<8154, 8155, 1, -100>>, <<8168, 8169, 1, -8>>,
    <<8170, 8171, 1, -112>>, <<8172, 8172, 1, -7>>, <<8184, 8185, 1, -128>>,
    <<8186, 8187, 1, -126>>, <<8188, 8188, 1, -9>>,
    <<8486, 8486, 1, -7517>>, <<8490, 8490, 1, -8383>>,
    <<8491, 8491, 1, -8262>>, <<8498, 8498, 1, 28>>, <<8544, 8559, 1, 16>>,
    <<8579, 8579, 1, 1>>, <<9398, 9423, 1, 26>>, <<11264, 11311, 1, 48>>,
    <<11360, 11360, 1, 1>>, <<11362, 11362, 1, -10743>>,
    <<11363, 11363, 1, -3814>>, <<11364, 11364, 1, -10727>>,
    <<11367, 11371, 2, 1>>, <<11373, 11373, 1, -10780>>,
    <<11374, 11374, 1, -10749>>, <<11375, 11375, 1, -10783>>,
    <<11376, 11376, 1, -10782>>, <<11378, 11378, 1, 1>>,
    <<11381, 11381, 1, 1>>, <<11390, 11391, 1, -10815>>,
    <<11392, 11490, 2, 1>>, <<11499, 11501, 2, 1>>, <<11506, 11506, 1, 1>>,
    <<42560, 42604, 2, 1>>, <<42624, 42650, 2, 1>>, <<42786, 42798, 2, 1>>,
    <<42802, 42862, 2, 1>>, <<42873, 42875, 2, 1>>,
    <<42877, 42877, 1, -35332>>, <<42878, 42886, 2, 1>>,
    <<42891, 42891, 1, 1>>, <<42893, 42893, 1, -42280>>,
    <<42896, 42898, 2, 1>>, <<42902, 42920, 2, 1>>,
    <<42922, 42922, 1, -42308>>, <<42923, 42923, 1, -42319>>,
    <<42924, 42924, 1, -42315>>, <<42925, 42925, 1, -42305>>,
    <<42926, 42926, 1, -42308>>, <<42928, 42928, 1, -42258>>,
    <<42929, 42929, 1, -42282>>, <<42930, 42930, 1, -42261>>,
    <<42931, 42931, 1, 928>>, <<42932, 42946, 2, 1>>,
    <<42948, 42948, 1, -48>>, <<42949, 42949, 1, -42307>>,
    <<42950, 42950, 1, -35384>>, <<42951, 42953, 2, 1>>,
    <<42960, 42960, 1, 1>>, <<42966, 42968, 2, 1>>, <<42997, 42997, 1, 1>>,
    <<65313, 65338, 1, 32>>, <<66560, 66599, 1, 40>>,
    <<66736, 66771, 1, 40>>, <<66928, 66964, 2, 39>>,
    <<66929, 66937, 2, 39>>, <<66941, 66953, 2, 39>>,
    <<66957, 66961, 2, 39>>, <<66965, 66965, 1, 39>>,
    <<68736, 68786, 1, 64>>, <<71840, 71871, 1, 32>>,
    <<93760, 93791, 1, 32>>, <<125184, 125217, 1, 34>> >>

\* the pairs <<c, c.lower()>> of LowerRanges
LowerPairs ==
    UNION { { <<Chr(LowerRanges[r][1] + k * LowerRanges[r][3]),
                Chr(LowerRanges[r][1] + k * LowerRanges[r][3] + LowerRanges[r][4])>> :
                k \in 0..((LowerRanges[r][2] - LowerRanges[r][1]) \div LowerRanges[r][3]) } :
            r \in DOMAIN LowerRanges }

LowerTable ==
    [c \in { p[1] : p \in LowerPairs } |-> (CHOOSE p \in LowerPairs : p[1] = c)[2]]

\* str.lower() on one character: the text it gives, which is two characters
\* long for U+0130 (capital I with dot above)
LowerChar(c) ==
    IF c = "U+0130" THEN <<"i", "U+0307">>
    ELSE IF c \in DOMAIN LowerTable THEN <<LowerTable[c]>>
    ELSE <<c>>

\* the code points with the Unicode property Cased, as ranges <<first, last>>
CasedRanges == <<
    <<65, 90>>, <<97, 122>>, <<170, 170>>, <<181, 181>>, <<186, 186>>,
    <<192, 214>>, <<216, 246>>, <<248, 442>>, <<444, 447>>, <<452, 659>>,
    <<661, 696>>, <<704, 705>>, <<736, 740>>, <<837, 837>>, <<880, 883>>,
    <<886, 887>>, <<890, 893>>, <<895, 895>>, <<902, 902>>, <<904, 906>>,
    <<908, 908>>, <<910, 929>>, <<931, 1013>>, <<1015, 1153>>,
    <<1162, 1327>>, <<1329, 1366>>, <<1376, 1416>>, <<4256, 4293>>,
    <<4295, 4295>>, <<4301, 4301>>, <<4304, 4346>>, <<4349, 4351>>,
    <<5024, 5109>>, <<5112, 5117>>, <<7296, 7304>>, <<7312, 7354>>,
    <<7357, 7359>>, <<7424, 7615>>, <<7680, 7957>>, <<7960, 7965>>,
    <<7968, 8005>>, <<8008, 8013>>, <<8016, 8023>>, <<8025, 8025>>,
    <<8027, 8027>>, <<8029, 8029>>, <<8031, 8061>>, <<8064, 8116>>,
    <<8118, 8124>>, <<8126, 8126>>, <<8130, 8132>>, <<8134, 8140>>,
    <<8144, 8147>>, <<8150, 8155>>, <<8160, 8172>>, <<8178, 8180>>,
    <<8182, 8188>>, <<8305, 8305>>, <<8319, 8319>>, <<8336, 8348>>,
    <<8450, 8450>>, <<8455, 8455>>, <<8458, 8467>>, <<8469, 8469>>,
    <<8473, 8477>>, <<8484, 8484>>, <<8486, 8486>>, <<8488, 8488>>,
    <<8490, 8493>>, <<8495, 8500>>, <<8505, 8505>>, <<8508, 8511>>,
    <<8517, 8521>>, <<8526, 8526>>, <<8544, 8575>>, <<8579, 8580>>,
    <<9398, 9449>>, <<11264, 11492>>, <<11499, 11502>>, <<11506, 11507>>,
    <<11520, 11557>>, <<11559, 11559>>, <<11565, 11565>>, <<42560, 42605>>,
    <<42624, 42653>>, <<42786, 42887>>, <<42891, 42894>>, <<42896, 42954>>,
    <<42960, 42961>>, <<42963, 42963>>, <<42965, 42969>>, <<42997, 42998>>,
    <<43000, 43002>>, <<43824, 43866>>, <<43868, 43880>>, <<43888, 43967>>,
    <<64256, 64262>>, <<64275, 64279>>, <<65313, 65338>>, <<65345, 65370>>,
    <<66560, 66639>>, <<66736, 66771>>, <<66776, 66811>>, <<66928, 66938>>,
    <<66940, 66954>>, <<66956, 66962>>, <<66964, 66965>>, <<66967, 66977>>,
    <<66979, 66993>>, <<66995, 67001>>, <<67003, 67004>>, <<67456, 67456>>,
    <<67459, 67461>>, <<67463, 67504>>, <<67506, 67514>>, <<68736, 68786>>,
    <<68800, 68850>>, <<71840, 71903>>, <<93760, 93823>>,
    <<119808, 119892>>, <<119894, 119964>>, <<119966, 119967>>,
    <<119970, 119970>>, <<119973, 119974>>, <<119977, 119980>>,
    <<119982, 119993>>, <<119995, 119995>>, <<119997, 120003>>,
    <<120005, 120069>>, <<120071, 120074>>, <<120077, 120084>>,
    <<120086, 120092>>, <<120094, 120121>>, <<120123, 120126>>,
    <<120128, 120132>>, <<120134, 120134>>, <<120138, 120144>>,
    <<120146, 120485>>, <<120488, 120512>>, <<120514, 120538>>,
    <<120540, 120570>>, <<120572, 120596>>, <<120598, 120628>>,
    <<120630, 120654>>, <<120656, 120686>>, <<120688, 120712>>,
    <<120714, 120744>>, <<120746, 120770>>, <<120772, 120779>>,
    <<122624, 122633>>, <<122635, 122654>>, <<125184, 125251>>,
    <<127280, 127305>>, <<127312, 127337>>, <<127344, 127369>> >>

Cased == CharsOf(CasedRanges)

\* the code points with the Unicode property Case_Ignorable, as ranges
\* <<first, last>>
CaseIgnorableRanges == <<
    <<39, 39>>, <<46, 46>>, <<58, 58>>, <<94, 94>>, <<96, 96>>,
    <<168, 168>>, <<173, 173>>, <<175, 175>>, <<180, 180>>, <<183, 184>>,
    <<688, 879>>, <<884, 885>>, <<890, 890>>, <<900, 901>>, <<903, 903>>,
    <<1155, 1161>>, <<1369, 1369>>, <<1375, 1375>>, <<1425, 1469>>,
    <<1471, 1471>>, <<1473, 1474>>, <<1476, 1477>>, <<1479, 1479>>,
    <<1524, 1524>>, <<1536, 1541>>, <<1552, 1562>>, <<1564, 1564>>,
    <<1600, 1600>>, <<1611, 1631>>, <<1648, 1648>>, <<1750, 1757>>,
    <<1759, 1768>>, <<1770, 1773>>, <<1807, 1807>>, <<1809, 1809>>,
    <<1840, 1866>>, <<1958, 1968>>, <<2027, 2037>>, <<2042, 2042>>,
    <<2045, 2045>>, <<2070, 2093>>, <<2137, 2139>>, <<2184, 2184>>,
    <<2192, 2193>>, <<2200, 2207>>, <<2249, 2306>>, <<2362, 2362>>,
    <<2364, 2364>>, <<2369, 2376>>, <<2381, 2381>>, <<2385, 2391>>,
    <<2402, 2403>>, <<2417, 2417>>, <<2433, 2433>>, <<2492, 2492>>,
    <<2497, 2500>>, <<2509, 2509>>, <<2530, 2531>>, <<2558, 2558>>,
    <<2561, 2562>>, <<2620, 2620>>, <<2625, 2626>>, <<2631, 2632>>,
    <<2635, 2637>>, <<2641, 2641>>, <<2672, 2673>>, <<2677, 2677>>,
    <<2689, 2690>>, <<2748, 2748>>, <<2753, 2757>>, <<2759, 2760>>,
    <<2765, 2765>>, <<2786, 2787>>, <<2810, 2815>>, <<2817, 2817>>,
    <<2876, 2876>>, <<2879, 2879>>, <<2881, 2884>>, <<2893, 2893>>,
    <<2901, 2902>>, <<2914, 2915>>, <<2946, 2946>>, <<3008, 3008>>,
    <<3021, 3021>>, <<3072, 3072>>, <<3076, 3076>>, <<3132, 3132>>,
    <<3134, 3136>>, <<3142, 3144>>, <<3146, 3149>>, <<3157, 3158>>,
    <<3170, 3171>>, <<3201, 3201>>, <<3260, 3260>>, <<3263, 3263>>,
    <<3270, 3270>>, <<3276, 3277>>, <<3298, 3299>>, <<3328, 3329>>,
    <<3387, 3388>>, <<3393, 3396>>, <<3405, 3405>>, <<3426, 3427>>,
    <<3457, 3457>>, <<3530, 3530>>, <<3538, 3540>>, <<3542, 3542>>,
    <<3633, 3633>>, <<3636, 3642>>, <<3654, 3662>>, <<3761, 3761>>,
    <<3764, 3772>>, <<3782, 3782>>, <<3784, 3789>>, <<3864, 3865>>,
    <<3893, 3893>>, <<3895, 3895>>, <<3897, 3897>>, <<3953, 3966>>,
    <<3968, 3972>>, <<3974, 3975>>, <<3981, 3991>>, <<3993, 4028>>,
    <<4038, 4038>>, <<4141, 4144>>, <<4146, 4151>>, <<4153, 4154>>,
    <<4157, 4158>>, <<4184, 4185>>, <<4190, 4192>>, <<4209, 4212>>,
    <<4226, 4226>>, <<4229, 4230>>, <<4237, 4237>>, <<4253, 4253>>,
    <<4348, 4348>>, <<4957, 4959>>, <<5906, 5908>>, <<5938, 5939>>,
    <<5970, 5971>>, <<6002, 6003>>, <<6068, 6069>>, <<6071, 6077>>,
    <<6086, 6086>>, <<6089, 6099>>, <<6103, 6103>>, <<6109, 6109>>,
    <<6155, 6159>>, <<6211, 6211>>, <<6277, 6278>>, <<6313, 6313>>,
    <<6432, 6434>>, <<6439, 6440>>, <<6450, 6450>>, <<6457, 6459>>,
    <<6679, 6680>>, <<6683, 6683>>, <<6742, 6742>>, <<6744, 6750>>,
    <<6752, 6752>>, <<6754, 6754>>, <<6757, 6764>>, <<6771, 6780>>,
    <<6783, 6783>>, <<6823, 6823>>, <<6832, 6862>>, <<6912, 6915>>,
    <<6964, 6964>>, <<6966, 6970>>, <<6972, 6972>>, <<6978, 6978>>,
    <<7019, 7027>>, <<7040, 7041>>, <<7074, 7077>>, <<7080, 7081>>,
    <<7083, 7085>>, <<7142, 7142>>, <<7144, 7145>>, <<7149, 7149>>,
    <<7151, 7153>>, <<7212, 7219>>, <<7222, 7223>>, <<7288, 7293>>,
    <<7376, 7378>>, <<7380, 7392>>, <<7394, 7400>>, <<7405, 7405>>,
    <<7412, 7412>>, <<7416, 7417>>, <<7468, 7530>>, <<7544, 7544>>,
    <<7579, 7679>>, <<8125, 8125>>, <<8127, 8129>>, <<8141, 8143>>,
    <<8157, 8159>>, <<8173, 8175>>, <<8189, 8190>>, <<8203, 8207>>,
    <<8216, 8217>>, <<8228, 8228>>, <<8231, 8231>>, <<8234, 8238>>,
    <<8288, 8292>>, <<8294, 8303>>, <<8305, 8305>>, <<8319, 8319>>,
    <<8336, 8348>>, <<8400, 8432>>, <<11388, 11389>>, <<11503, 11505>>,
    <<11631, 11631>>, <<11647, 11647>>, <<11744, 11775>>, <<11823, 11823>>,
    <<12293, 12293>>, <<12330, 12333>>, <<12337, 12341>>, <<12347, 12347>>,
    <<12441, 12446>>, <<12540, 12542>>, <<40981, 40981>>, <<42232, 42237>>,
    <<42508, 42508>>, <<42607, 42610>>, <<42612, 42621>>, <<42623, 42623>>,
    <<42652, 42655>>, <<42736, 42737>>, <<42752, 42785>>, <<42864, 42864>>,
    <<42888, 42890>>, <<42994, 42996>>, <<43000, 43001>>, <<43010, 43010>>,
    <<43014, 43014>>, <<43019, 43019>>, <<43045, 43046>>, <<43052, 43052>>,
    <<43204, 43205>>, <<43232, 43249>>, <<43263, 43263>>, <<43302, 43309>>,
    <<43335, 43345>>, <<43392, 43394>>, <<43443, 43443>>, <<43446, 43449>>,
    <<43452, 43453>>, <<43471, 43471>>, <<43493, 43494>>, <<43561, 43566>>,
    <<43569, 43570>>, <<43573, 43574>>, <<43587, 43587>>, <<43596, 43596>>,
    <<43632, 43632>>, <<43644, 43644>>, <<43696, 43696>>, <<43698, 43700>>,
    <<43703, 43704>>, <<43710, 43711>>, <<43713, 43713>>, <<43741, 43741>>,
    <<43756, 43757>>, <<43763, 43764>>, <<43766, 43766>>, <<43867, 43871>>,
    <<43881, 43883>>, <<44005, 44005>>, <<44008, 44008>>, <<44013, 44013>>,
    <<64286, 64286>>, <<64434, 64450>>, <<65024, 65039>>, <<65043, 65043>>,
    <<65056, 65071>>, <<65106, 65106>>, <<65109, 65109>>, <<65279, 65279>>,
    <<65287, 65287>>, <<65294, 65294>>, <<65306, 65306>>, <<65342, 65342>>,
    <<65344, 65344>>, <<65392, 65392>>, <<65438, 65439>>, <<65507, 65507>>,
    <<65529, 65531>>, <<66045, 66045>>, <<66272, 66272>>, <<66422, 66426>>,
    <<67456, 67461>>, <<67463, 67504>>, <<67506, 67514>>, <<68097, 68099>>,
    <<68101, 68102>>, <<68108, 68111>>, <<68152, 68154>>, <<68159, 68159>>,
    <<68325, 68326>>, <<68900, 68903>>, <<69291, 69292>>, <<69446, 69456>>,
    <<69506, 69509>>, <<69633, 69633>>, <<69688, 69702>>, <<69744, 69744>>,
    <<69747, 69748>>, <<69759, 69761>>, <<69811, 69814>>, <<69817, 69818>>,
    <<69821, 69821>>, <<69826, 69826>>, <<69837, 69837>>, <<69888, 69890>>,
    <<69927, 69931>>, <<69933, 69940>>, <<70003, 70003>>, <<70016, 70017>>,
    <<70070, 70078>>, <<70089, 70092>>, <<70095, 70095>>, <<70191, 70193>>,
    <<70196, 70196>>, <<70198, 70199>>, <<70206, 70206>>, <<70367, 70367>>,
    <<70371, 70378>>, <<70400, 70401>>, <<70459, 70460>>, <<70464, 70464>>,
    <<70502, 70508>>, <<70512, 70516>>, <<70712, 70719>>, <<70722, 70724>>,
    <<70726, 70726>>, <<70750, 70750>>, <<70835, 70840>>, <<70842, 70842>>,
    <<70847, 70848>>, <<70850, 70851>>, <<71090, 71093>>, <<71100, 71101>>,
    <<71103, 71104>>, <<71132, 71133>>, <<71219, 71226>>, <<71229, 71229>>,
    <<71231, 71232>>, <<71339, 71339>>, <<71341, 71341>>, <<71344, 71349>>,
    <<71351, 71351>>, <<71453, 71455>>, <<71458, 71461>>, <<71463, 71467>>,
    <<71727, 71735>>, <<71737, 71738>>, <<71995, 71996>>, <<71998, 71998>>,
    <<72003, 72003>>, <<72148, 72151>>, <<72154, 72155>>, <<72160, 72160>>,
    <<72193, 72202>>, <<72243, 72248>>, <<72251, 72254>>, <<72263, 72263>>,
    <<72273, 72278>>, <<72281, 72283>>, <<72330, 72342>>, <<72344, 72345>>,
    <<72752, 72758>>, <<72760, 72765>>, <<72767, 72767>>, <<72850, 72871>>,
    <<72874, 72880>>, <<72882, 72883>>, <<72885, 72886>>, <<73009, 73014>>,
    <<73018, 73018>>, <<73020, 73021>>, <<73023, 73029>>, <<73031, 73031>>,
    <<73104, 73105>>, <<73109, 73109>>, <<73111, 73111>>, <<73459, 73460>>,
    <<78896, 78904>>, <<92912, 92916>>, <<92976, 92982>>, <<92992, 92995>>,
    <<94031, 94031>>, <<94095, 94111>>, <<94176, 94177>>, <<94179, 94180>>,
    <<110576, 110579>>, <<110581, 110587>>, <<110589, 110590>>,
    <<113821, 113822>>, <<113824, 113827>>, <<118528, 118573>>,
    <<118576, 118598>>, <<119143, 119145>>, <<119155, 119170>>,
    <<119173, 119179>>, <<119210, 119213>>, <<119362, 119364>>,
    <<121344, 121398>>, <<121403, 121452>>, <<121461, 121461>>,
    <<121476, 121476>>, <<121499, 121503>>, <<121505, 121519>>,
    <<122880, 122886>>, <<122888, 122904>>, <<122907, 122913>>,
    <<122915, 122916>>, <<122918, 122922>>, <<123184, 123197>>,
    <<123566, 123566>>, <<123628, 123631>>, <<125136, 125142>>,
    <<125252, 125259>>, <<127995, 127999>>, <<917505, 917505>>,
    <<917536, 917631>>, <<917760, 917999>> >>

CaseIgnorable == CharsOf(CaseIgnorableRanges)

\* str.lower() gives the final form U+03C2 for a capital sigma U+03A3 that ends
\* a word: the nearest character before it that is not case-ignorable is cased,
\* and the nearest such character after it, if there is one, is not
FinalSigma(s, i) ==
    LET before == { j \in 1..(i - 1) : s[j] \notin CaseIgnorable }
        after  == { j \in (i + 1)..Len(s) : s[j] \notin CaseIgnorable }
    IN  /\ s[i] = "U+03A3"
        /\ before # {}
        /\ s[CHOOSE j \in before : \A k \in before : k <= j] \in Cased
        /\ \/ after = {}
           \/ s[CHOOSE j \in after : \A k \in after : j <= k] \notin Cased

\* str.lower(), from position i on
RECURSIVE LowerFrom(_, _)
LowerFrom(s, i) ==
    IF i > Len(s) THEN <<>>
    ELSE (IF FinalSigma(s, i) THEN <<"U+03C2">> ELSE LowerChar(s[i]))
             \o LowerFrom(s, i + 1)

\* str.lower()
Lower(s) == LowerFrom(s, 1)

\* the code points c with c.isspace(), which str.strip() removes, as ranges
\* <<first, last>>
WhitespaceRanges == <<
    <<9, 13>>, <<28, 32>>, <<133, 133>>, <<160, 160>>, <<5760, 5760>>,
    <<8192, 8202>>, <<8232, 8233>>, <<8239, 8239>>, <<8287, 8287>>,
    <<12288, 12288>> >>

\* the characters str.strip() removes
Whitespace == CharsOf(WhitespaceRanges)

\* str.strip(): drop leading and trailing whitespace, keep inner whitespace
Strip(s) ==
    LET keep == {i \in 1..Len(s) : s[i] \notin Whitespace}
    IN  IF keep = {} THEN <<>>
        ELSE LET lo == CHOOSE i \in keep : \A j \in keep : i <= j
                 hi == CHOOSE i \in keep : \A j \in keep : j <= i
             IN  SubSeq(s, lo, hi)

\* does `pat` occur in `s` at position i
MatchAt(pat, s, i) ==
    /\ i + Len(pat) - 1 <= Len(s)
    /\ \A k \in 1..Len(pat) : s[i + k - 1] = pat[k]

\* Python's `kw in s` on strings
Contains(kw, s) == \E i \in 1..(Len(s) + 1) : MatchAt(kw, s, i)

VICTIM_PROTECTION_KEYWORDS == <<
    <<"v","i","c","t","i","m">>,
    <<"s","u","r","v","i","v","o","r">>,
    <<"m","i","n","o","r">>,
    <<"u","n","d","e","r","a","g","e">>,
    <<"t","r","a","f","f","i","c","k","i","n","g"," ","v","i","c","t","i","m">>,
    <<"j","a","n","e"," ","d","o","e">>,
    <<"j","o","h","n"," ","d","o","e">>,
    <<"a","l","l","e","g","e","d"," ","v","i","c","t","i","m">>,
    <<"c","o","m","p","l","a","i","n","a","n","t">> >>

\* any(kw in name.lower() for kw in VICTIM_PROTECTION_KEYWORDS)
LexiconMatch(name) ==
    \E k \in 1..Len(VICTIM_PROTECTION_KEYWORDS) :
        Contains(VICTIM_PROTECTION_KEYWORDS[k], Lower(name))

\* the victim-protection test of one verified_persons entry, on its stripped name
VictimPredicate(person, name) ==
    Get(person, "possible_victim", FALSE) \/ LexiconMatch(name)

\* `if not name or len(name) < 2: continue`
MIN_NAME_LEN == 2
NameTooShort(name) == Len(name) < MIN_NAME_LEN

\* ------------------------------------------------------------------- store
\* The store: every table is the sequence of its rows in insertion order.  A
\* row's id is assigned by the store on insertion; the pipeline deletes nothing,
\* so the next id of a table is its length plus one.
Tables == {"documents", "persons", "person_documents", "locations", "events",
           "event_documents", "event_persons", "person_relationships",
           "conflict_records", "agent_processing_log"}

EmptyDb == [t \in Tables |-> <<>>]

\* a row conflicts with a record when they agree on every on_conflict column
KeyMatch(row, rec, key) == \A c \in key : row[c] = rec[c]

\* .select(...).eq(col, val).execute().data
SelectEq(table, col, val) == SelectSeq(table, LAMBDA r : r[col] = val)

\* (an insert that returns the row that already holds the same values)
StoreInsertDedup(table, rec) ==
    IF \E i \in 1..Len(table) : \A c \in DOMAIN rec : table[i][c] = rec[c]
    THEN LET i == CHOOSE j \in 1..Len(table) : \A c \in DOMAIN rec : table[j][c] = rec[c]
         IN  [table |-> table, row |-> table[i], created |-> FALSE]
    ELSE LET row == rec @@ [id |-> Len(table) + 1]
         IN  [table |-> Append(table, row), row |-> row, created |-> TRUE]

\* .insert(rec).execute(): [table: the table afterwards, row: data[0]]
StoreInsert(table, rec) ==
    LET row == rec @@ [id |-> Len(table) + 1]
    IN  [table |-> Append(table, row), row |-> row, created |-> TRUE]

\* (an upsert that ignores on_conflict: a blind insert)
StoreUpsertAsInsert(table, rec, key, defaults) ==
    LET row == rec @@ [id |-> Len(table) + 1] @@ defaults
    IN  [table |-> Append(table, row), row |-> row, created |-> TRUE]

\* .upsert(rec, on_conflict=key).execute(): insert, or on a key conflict set the
\* columns the record names and keep the others.  `defaults` are the columns a
\* new row gets when the record does not name them.
StoreUpsert(table, rec, key, defaults) ==
    IF \E i \in 1..Len(table) : KeyMatch(table[i], rec, key)
    THEN LET i   == CHOOSE j \in 1..Len(table) : KeyMatch(table[j], rec, key)
             row == rec @@ table[i]
         IN  [table |-> [table EXCEPT ![i] = row], row |-> row, created |-> FALSE]
    ELSE LET row == rec @@ [id |-> Len(table) + 1] @@ defaults
         IN  [table |-> Append(table, row), row |-> row, created |-> TRUE]

\* hashlib.md5(url.encode()).hexdigest()[:8].upper(), for the URLs of the model
Urls == {"https://www.justice.gov/epstein/doc-001.pdf",
         "https://www.justice.gov/epstein/doc-002.pdf"}
Md5Prefix8Upper(url) ==
    CASE url = "https://www.justice.gov/epstein/doc-001.pdf" -> "07FC5606"
      [] url = "https://www.justice.gov/epstein/doc-002.pdf" -> "67759CAC"

\* f"DOC-{doc_hash[:8].upper()}"
DocReferenceId(url) == "DOC-" \o Md5Prefix8Upper(url)

\* ------------------------------------------------------ write_to_database
\* The writer's running state: the store, the result summary, the store writes
\* made so far in this call (in order), location_id_map and document_id.
WriterStart(db) ==
    [db |-> db,
     results |-> [document_id |-> None, persons_written |-> 0,
                  locations_written |-> 0, events_written |-> 0,
                  conflicts_logged |-> 0, victim_flags |-> 0],
     writes |-> <<>>,
     location_id_map |-> <<>>,
     document_id |-> None]

\* one store write of this call, as recorded in `writes`
WriteOp(table, op, res) ==
    [table |-> table, op |-> op, row |-> res.row, created |-> res.created]

\* apply the outcome `res` of a write on `table` to the running state
Apply(w, table, op, res) ==
    [w EXCEPT !.db[table] = res.table,
              !.writes = Append(@, WriteOp(table, op, res))]

\* (a document key that also holds the batch label)
DocumentKeyWithBatch == {"doc_reference_id", "release_batch"}

\* the on_conflict column of the documents upsert
DocumentKey == {"doc_reference_id"}

\* 1. the document record, upserted on doc_reference_id
WriteDocument(w, document_meta, scout_data, verification_data, batch_id) ==
    LET doc_record == [doc_reference_id |-> DocReferenceId(document_meta["url"]),
                       document_type    |-> Get(scout_data, "document_type", "other"),
                       source           |-> "doj_release",
                       release_batch    |-> batch_id,
                       ocr_quality      |-> Get(document_meta, "ocr_quality", "clean"),
                       doj_url          |-> document_meta["url"],
                       is_processed     |-> TRUE,
                       notes            |-> Get(verification_data, "verification_summary", "")]
        res == StoreUpsert(w.db["documents"], doc_record, DocumentKey, <<>>)
        w1  == Apply(w, "documents", "upsert", res)
    IN  [w1 EXCEPT !.document_id = Some(res.row["id"]),
                   !.results["document_id"] = Some(res.row["id"])]

\* persons_intel = {p["name"]: p for p in persons_intelligence}: a later entry
\* of the same name replaces an earlier one
PersonsIntel(persons_intelligence) ==
    LET names == {persons_intelligence[i]["name"] : i \in 1..Len(persons_intelligence)}
        last(n) == CHOOSE i \in 1..Len(persons_intelligence) :
                      /\ persons_intelligence[i]["name"] = n
                      /\ \A j \in 1..Len(persons_intelligence) :
                            persons_intelligence[j]["name"] = n => j <= i
    IN  [n \in names |-> persons_intelligence[last(n)]]

\* the text before {name} in f"Possible victim: {name}"
PossibleVictimPrefix ==
    <<"P","o","s","s","i","b","l","e"," ","v","i","c","t","i","m",":"," ">>

\* the victim branch: count the flag and insert the conflict record
FlagVictim(w, name) ==
    LET res == StoreInsert(w.db["conflict_records"],
                   [entity_type      |-> "person",
                    entity_id        |-> w.document_id,
                    conflict_field   |-> "victim_flag",
                    document_a_id    |-> w.document_id,
                    document_a_claim |-> PossibleVictimPrefix \o name,
                    document_b_claim |-> "Requires human review before any database write"])
        w1  == Apply(w, "conflict_records", "insert", res)
    IN  [w1 EXCEPT !.results["victim_flags"] = @ + 1]

\* (a person-document link that is inserted blindly)
InsertPersonDocument(table, rec) == StoreInsert(table, rec)

\* supabase.table("person_documents").upsert(rec, on_conflict="person_id,document_id")
UpsertPersonDocument(table, rec) ==
    StoreUpsert(table, rec, {"person_id", "document_id"}, <<>>)

\* the person upsert on full_name and the person_documents upsert
UpsertPerson(w, person, name, persons_intel) ==
    LET intel == Get(persons_intel, name, <<>>)
        power == Get(intel, "power_index", <<>>)
        base  == [full_name          |-> name,
                  confidence         |-> Get(person, "confidence", "unverified"),
                  redaction_status   |-> IF Get(person, "is_redacted", FALSE)
                                         THEN "partial" ELSE "none",
                  power_corroboration |-> IF "corroboration" \in DOMAIN power
                                          THEN Some(power["corroboration"]) ELSE None,
                  victim_protected   |-> FALSE,
                  is_victim          |-> FALSE,
                  flagged_for_review |-> Get(person, "requires_human_review", FALSE)]
        \* `if intel.get("category_inference"):` the category is a string, and
        \* the empty string is as false as a missing one
        person_record ==
            IF Get(intel, "category_inference", "") # ""
            THEN base @@ [category |-> Some(intel["category_inference"])]
            ELSE base
        pres == StoreUpsert(w.db["persons"], person_record, {"full_name"},
                            [category |-> None])
        w1   == Apply(w, "persons", "upsert", pres)
        lres == UpsertPersonDocument(w1.db["person_documents"],
                            [person_id   |-> pres.row["id"],
                             document_id |-> w.document_id,
                             confidence  |-> Get(person, "confidence", "unverified")])
        w2   == Apply(w1, "person_documents", "upsert", lres)
    IN  [w2 EXCEPT !.results["persons_written"] = @ + 1]

\* one iteration of `for person in verified_persons`
WritePerson(w, person, persons_intel) ==
    LET name == Strip(Get(person, "name", <<>>))
    IN  IF NameTooShort(name) THEN w
        ELSE IF VictimPredicate(person, name) THEN FlagVictim(w, name)
        ELSE UpsertPerson(w, person, name, persons_intel)

\* 2. `for person in verification_data.get("verified_persons", [])`
RECURSIVE WritePersonsFrom(_, _, _, _)
WritePersonsFrom(w, persons, persons_intel, i) ==
    IF i > Len(persons) THEN w
    ELSE WritePersonsFrom(WritePerson(w, persons[i], persons_intel),
                          persons, persons_intel, i + 1)

WritePersons(w, verification_data, decision_data) ==
    WritePersonsFrom(w, Get(verification_data, "verified_persons", <<>>),
                     PersonsIntel(Get(decision_data, "persons_intelligence", <<>>)), 1)

\* one iteration of `for location in verified_locations`
WriteLocation(w, location) ==
    LET name == Strip(Get(location, "name", <<>>))
    IN  IF NameTooShort(name) THEN w
        ELSE LET res == StoreUpsert(w.db["locations"],
                            [name          |-> name,
                             location_type |-> Get(location, "location_type", "other"),
                             confidence    |-> Get(location, "confidence", "unverified")],
                            {"name"}, <<>>)
                 w1  == Apply(w, "locations", "upsert", res)
             IN  [w1 EXCEPT !.location_id_map = (name :> res.row["id"]) @@ @,
                            !.results["locations_written"] = @ + 1]

\* 3. `for location in verification_data.get("verified_locations", [])`
RECURSIVE WriteLocationsFrom(_, _, _)
WriteLocationsFrom(w, locations, i) ==
    IF i > Len(locations) THEN w
    ELSE WriteLocationsFrom(WriteLocation(w, locations[i]), locations, i + 1)

WriteLocations(w, verification_data) ==
    WriteLocationsFrom(w, Get(verification_data, "verified_locations", <<>>), 1)

\* one iteration of `for person_name in event.get("persons_present", [])`: the
\* person is looked up by the name as the event gives it
LinkEventPerson(w, event, event_id, person_name) ==
    LET person_lookup == SelectEq(w.db["persons"], "full_name", person_name)
    IN  IF person_lookup = <<>> THEN w
        ELSE Apply(w, "event_persons", "upsert",
                   StoreUpsert(w.db["event_persons"],
                       [event_id   |-> event_id,
                        person_id  |-> person_lookup[1]["id"],
                        confidence |-> Get(event, "confidence", "unverified")],
                       {"event_id", "person_id"}, <<>>))

RECURSIVE LinkEventPersonsFrom(_, _, _, _, _)
LinkEventPersonsFrom(w, event, event_id, names, i) ==
    IF i > Len(names) THEN w
    ELSE LinkEventPersonsFrom(LinkEventPerson(w, event, event_id, names[i]),
                              event, event_id, names, i + 1)

\* one iteration of `for event in verified_events`: the event insert, its
\* event_documents insert and its event_persons upserts
WriteEvent(w, event) ==
    LET location_id ==
            IF "location" \in DOMAIN event /\ event["location"] # <<>>
               /\ event["location"] \in DOMAIN w.location_id_map
            THEN Some(w.location_id_map[event["location"]]) ELSE None
        eres == StoreInsert(w.db["events"],
                    [event_type          |-> Get(event, "event_type", "other"),
                     event_date          |-> Get(event, "date", None),
                     primary_location_id |-> location_id,
                     confidence          |-> Get(event, "confidence", "unverified")])
        w1   == Apply(w, "events", "insert", eres)
        w2   == [w1 EXCEPT !.results["events_written"] = @ + 1]
        w3   == Apply(w2, "event_documents", "insert",
                      StoreInsert(w2.db["event_documents"],
                          [event_id     |-> eres.row["id"],
                           document_id  |-> w.document_id,
                           support_type |-> "primary_proof"]))
    IN  LinkEventPersonsFrom(w3, event, eres.row["id"],
                             Get(event, "persons_present", <<>>), 1)

\* 4. `for event in verification_data.get("verified_events", [])`
RECURSIVE WriteEventsFrom(_, _, _)
WriteEventsFrom(w, events, i) ==
    IF i > Len(events) THEN w
    ELSE WriteEventsFrom(WriteEvent(w, events[i]), events, i + 1)

WriteEvents(w, verification_data) ==
    WriteEventsFrom(w, Get(verification_data, "verified_events", <<>>), 1)

\* the on_conflict columns of the person_relationships upsert
RelationshipKey == {"person_a_id", "person_b_id"}

\* one iteration of `for rel in relationship_determinations`: both persons are
\* looked up by the names as the determination gives them
WriteRelationship(w, rel) ==
    LET person_a_lookup == SelectEq(w.db["persons"], "full_name", Get(rel, "person_a", <<>>))
        person_b_lookup == SelectEq(w.db["persons"], "full_name", Get(rel, "person_b", <<>>))
    IN  IF person_a_lookup = <<>> \/ person_b_lookup = <<>> THEN w
        ELSE Apply(w, "person_relationships", "upsert",
                   StoreUpsert(w.db["person_relationships"],
                       [person_a_id         |-> person_a_lookup[1]["id"],
                        person_b_id         |-> person_b_lookup[1]["id"],
                        relationship_type   |-> Get(rel, "relationship_type", "unknown"),
                        evidence_strength   |-> Get(rel, "evidence_strength", "weak"),
                        co_occurrence_count |-> Get(rel, "co_occurrence_count", 1),
                        source_document_ids |-> w.document_id],
                       RelationshipKey, <<>>))

\* 5. `for rel in decision_data.get("relationship_determinations", [])`
RECURSIVE WriteRelationshipsFrom(_, _, _)
WriteRelationshipsFrom(w, rels, i) ==
    IF i > Len(rels) THEN w
    ELSE WriteRelationshipsFrom(WriteRelationship(w, rels[i]), rels, i + 1)

WriteRelationships(w, decision_data) ==
    WriteRelationshipsFrom(w, Get(decision_data, "relationship_determinations", <<>>), 1)

\* (a conflict insert that leaves the counter alone)
WriteConflictUncounted(w, conflict) ==
    Apply(w, "conflict_records", "insert",
          StoreInsert(w.db["conflict_records"],
              [entity_type      |-> Get(conflict, "conflict_type", "other"),
               entity_id        |-> w.document_id,
               conflict_field   |-> Get(conflict, "description", ""),
               document_a_id    |-> w.document_id,
               document_a_claim |-> Get(conflict, "document_claim", <<>>),
               document_b_claim |-> Get(conflict, "conflicting_claim", "")]))

\* one iteration of `for conflict in conflicts_detected`
WriteConflict(w, conflict) ==
    LET w1 == Apply(w, "conflict_records", "insert",
                  StoreInsert(w.db["conflict_records"],
                      [entity_type      |-> Get(conflict, "conflict_type", "other"),
                       entity_id        |-> w.document_id,
                       conflict_field   |-> Get(conflict, "description", ""),
                       document_a_id    |-> w.document_id,
                       document_a_claim |-> Get(conflict, "document_claim", <<>>),
                       document_b_claim |-> Get(conflict, "conflicting_claim", "")]))
    IN  [w1 EXCEPT !.results["conflicts_logged"] = @ + 1]

\* 6. `for conflict in verification_data.get("conflicts_detected", [])`
RECURSIVE WriteConflictsFrom(_, _, _)
WriteConflictsFrom(w, conflicts, i) ==
    IF i > Len(conflicts) THEN w
    ELSE WriteConflictsFrom(WriteConflict(w, conflicts[i]), conflicts, i + 1)

WriteConflicts(w, verification_data) ==
    WriteConflictsFrom(w, Get(verification_data, "conflicts_detected", <<>>), 1)

\* 7. the agent_processing_log insert
WriteProcessingLog(w, scout_data, verification_data, decision_data, batch_id) ==
    Apply(w, "agent_processing_log", "insert",
          StoreInsert(w.db["agent_processing_log"],
              [agent_name          |-> "full_pipeline",
               document_id         |-> w.document_id,
               batch_id            |-> batch_id,
               status              |-> "complete",
               persons_extracted   |-> w.results["persons_written"],
               locations_extracted |-> w.results["locations_written"],
               events_created      |-> w.results["events_written"],
               conflicts_flagged   |-> w.results["conflicts_logged"],
               tokens_used         |-> Get(scout_data, "_tokens_used", 0)
                                       + Get(verification_data, "_tokens_used", 0)
                                       + Get(decision_data, "_tokens_used", 0)]))

\* (a writer that logs the detected conflicts before it writes the relationships)
write_to_database_conflicts_first(db, document_meta, scout_data, verification_data, decision_data, batch_id) ==
    LET w1 == WriteDocument(WriterStart(db), document_meta, scout_data,
                            verification_data, batch_id)
        w2 == WritePersons(w1, verification_data, decision_data)
        w3 == WriteLocations(w2, verification_data)
        w4 == WriteEvents(w3, verification_data)
        w5 == WriteConflicts(w4, verification_data)
        w6 == WriteRelationships(w5, decision_data)
    IN  WriteProcessingLog(w6, scout_data, verification_data, decision_data, batch_id)

\* write_to_database(document_meta, scout_data, verification_data, decision_data,
\* batch_id) on the store `db`: the running state after step 7
write_to_database(db, document_meta, scout_data, verification_data, decision_data, batch_id) ==
    LET w1 == WriteDocument(WriterStart(db), document_meta, scout_data,
                            verification_data, batch_id)
        w2 == WritePersons(w1, verification_data, decision_data)
        w3 == WriteLocations(w2, verification_data)
        w4 == WriteEvents(w3, verification_data)
        w5 == WriteRelationships(w4, decision_data)
        w6 == WriteConflicts(w5, verification_data)
    IN  WriteProcessingLog(w6, scout_data, verification_data, decision_data, batch_id)

\* ------------------------------------------------- the three oracle stages
\* re.sub(r'(3 grave accents)json\n?|\n?(3 grave accents)', '', raw_output), scanning
\* from position i
\* (the grave accent, U+0060, cannot be written in a TLA+ string: BQ stands for it)
BQ        == "U+0060"
FenceJson == <<BQ, BQ, BQ, "j","s","o","n">>
Fence     == <<BQ, BQ, BQ>>
RECURSIVE SubFences(_, _)
SubFences(s, i) ==
    IF i > Len(s) THEN <<>>
    ELSE IF MatchAt(FenceJson, s, i)
         THEN SubFences(s, IF i + 7 <= Len(s) /\ s[i + 7] = "\n" THEN i + 8 ELSE i + 7)
    ELSE IF s[i] = "\n" /\ MatchAt(Fence, s, i + 1) THEN SubFences(s, i + 4)
    ELSE IF MatchAt(Fence, s, i) THEN SubFences(s, i + 3)
    ELSE <<s[i]>> \o SubFences(s, i + 1)

\* clean_output = re.sub(...).strip()
CleanOutput(raw_output) == Strip(SubFences(raw_output, 1))

\* The oracle responses of the model.
tProse     == <<"n","o","t"," ","j","s","o","n">>
tEmpty     == <<>>
tTruncated == <<"{">>
tArray     == <<"[","]">>
tString    == <<"\"","o","k","\"">>
tNumber    == <<"4","2">>
tNull      == <<"n","u","l","l">>
tTrue      == <<"t","r","u","e">>
tObject    == <<"{","}">>
tReview    == <<"{","\"","r","e","q","u","i","r","e","s","_","h","u","m","a","n","_",
                "r","e","v","i","e","w","\"",":"," ","f","a","l","s","e","}">>
tFenced    == FenceJson \o <<"\n">> \o tObject \o <<"\n">> \o Fence
tFencedArr == Fence \o <<"\n">> \o tArray \o <<"\n">> \o Fence

ResponseTexts == {tProse, tEmpty, tTruncated, tArray, tString, tNumber, tNull, tTrue,
                  tObject, tReview, tFenced, tFencedArr}

\* json.loads(clean_output) on the cleaned responses of the model: the Python
\* type of the value and, for a dict, the dict; or JSONDecodeError
JsonLoads(text) ==
    CASE text = tProse     -> [type |-> "JSONDecodeError"]
      [] text = tEmpty     -> [type |-> "JSONDecodeError"]
      [] text = tTruncated -> [type |-> "JSONDecodeError"]
      [] text = tArray     -> [type |-> "list"]
      [] text = tString    -> [type |-> "str"]
      [] text = tNumber    -> [type |-> "int"]
      [] text = tNull      -> [type |-> "NoneType"]
      [] text = tTrue      -> [type |-> "bool"]
      [] text = tObject    -> [type |-> "dict", value |-> <<>>]
      [] text = tReview    -> [type |-> "dict", value |-> [requires_human_review |-> FALSE]]

\* raw_output[:200]
SNIPPET_LEN == 200
Snippet(raw_output) ==
    SubSeq(raw_output, 1, IF Len(raw_output) < SNIPPET_LEN THEN Len(raw_output)
                          ELSE SNIPPET_LEN)

ParseFailedPrefix ==
    <<"J","S","O","N"," ","p","a","r","s","e"," ","f","a","i","l","e","d","."," ",
      "R","a","w",":"," ">>

\* the object each stage substitutes in `except json.JSONDecodeError`
ScoutFallback(raw_output) ==
    [document_type |-> "other", persons_found |-> <<>>, locations_found |-> <<>>,
     events_found |-> <<>>, organizations_found |-> <<>>, victim_flags |-> <<>>,
     scout_notes |-> ParseFailedPrefix \o Snippet(raw_output),
     requires_human_review |-> TRUE]

VerificationFallback ==
    [document_confidence |-> "unverified", verified_persons |-> <<>>,
     verified_locations |-> <<>>, verified_events |-> <<>>,
     conflicts_detected |-> <<>>, anomalies |-> <<"JSON parse failed">>,
     requires_human_review |-> TRUE,
     human_review_reason |-> "Verification agent output unparseable"]

\* (its two messages hold an em dash, U+2014, and so are written as text)
DecisionFallback ==
    [intelligence_value |-> "low",
     intelligence_summary |->
        <<"P","r","o","c","e","s","s","i","n","g"," ","e","r","r","o","r"," ",
          "U+2014"," ","h","u","m","a","n"," ","r","e","v","i","e","w"," ",
          "r","e","q","u","i","r","e","d">>,
     persons_intelligence |-> <<>>, relationship_determinations |-> <<>>,
     pattern_flags |-> <<>>, decision_log |-> <<"JSON parse failed">>,
     evidence_chain |->
        <<"U","n","a","b","l","e"," ","t","o"," ","g","e","n","e","r","a","t",
          "e"," ","U+2014"," ","h","u","m","a","n"," ","r","e","v","i","e",
          "w"," ","r","e","q","u","i","r","e","d">>]

\* From json.loads to the return: the try/except, then the item assignments
\* data["_model"] = ..., data["_tokens_used"] = ..., which raise TypeError on a
\* value that is no dict.  [status: "returned", value] or [status: "raised", exc].
StageParse(raw_output, fallback, model_name, input_tokens, output_tokens) ==
    LET parsed == JsonLoads(CleanOutput(raw_output))
        data   == IF parsed.type = "JSONDecodeError"
                  THEN [type |-> "dict", value |-> fallback] ELSE parsed
    IN  IF data.type = "dict"
        THEN [status |-> "returned",
              value  |-> [_model |-> model_name,
                          _tokens_used |-> input_tokens + output_tokens] @@ data.value]
        ELSE [status |-> "raised", exc |-> "TypeError", value |-> <<>>]

SCOUT_MODEL        == "claude-haiku-4-5-20251001"
VERIFICATION_MODEL == "claude-sonnet-4-6"
DECISION_MODEL     == "claude-sonnet-4-6"

run_scout_agent(raw_output, input_tokens, output_tokens) ==
    StageParse(raw_output, ScoutFallback(raw_output), SCOUT_MODEL,
               input_tokens, output_tokens)

run_verification_harness(raw_output, input_tokens, output_tokens) ==
    StageParse(raw_output, VerificationFallback, VERIFICATION_MODEL,
               input_tokens, output_tokens)

run_decision_engine(raw_output, input_tokens, output_tokens) ==
    StageParse(raw_output, DecisionFallback, DECISION_MODEL,
               input_tokens, output_tokens)

\* ------------------------------------------------------------ stage outputs
\* The names the oracle's outputs of the model mention, as written.
nAl   == <<"A","l">>
nBo   == <<"B","o">>
nJane == <<" ","J","a","n","e"," ","D","o","e">>
nJ    == <<"J">>
nIsle == <<"I","s","l","e">>

\* entries of verified_persons
PersonEntries ==
    { [name |-> nAl, confidence |-> "confirmed"],
      [name |-> nBo],
      [name |-> nBo, possible_victim |-> TRUE],
      [name |-> nJane, confidence |-> "indicated"],
      [name |-> nJ, possible_victim |-> TRUE] }

\* entries of the Extraction output's persons_found
ScoutPersonEntries == { [name |-> nBo, possible_victim |-> TRUE] }

\* entries of relationship_determinations
RelationshipEntries ==
    { [person_a |-> nAl, person_b |-> nBo],
      [person_a |-> nBo, person_b |-> nAl, co_occurrence_count |-> 2] }

\* entries of verified_events and verified_locations
EventEntries    == { [persons_present |-> <<nBo>>, location |-> nIsle] }
LocationEntries == { [name |-> nIsle, location_type |-> "island"] }

\* the sequences over S of length at most n
SeqUpTo(S, n) == UNION { [1..k -> S] : k \in 0..n }

\* One call's arguments: the five parameters of write_to_database.
CallArgs ==
    { a \in [url      : Urls,
             batch_id : {"dec_2025"},
             persons_found               : SeqUpTo(ScoutPersonEntries, 1),
             verified_persons            : SeqUpTo(PersonEntries, MaxPersons),
             verified_locations          : SeqUpTo(LocationEntries, 1),
             verified_events             : SeqUpTo(EventEntries, 1),
             relationship_determinations : SeqUpTo(RelationshipEntries, 1),
             persons_intelligence        : {<<>>},
             conflicts_detected          : {<<>>},
             decision_fields             : {<<>>}] :
        Len(a.persons_found) + Len(a.verified_persons) + Len(a.verified_locations)
          + Len(a.verified_events) + Len(a.relationship_determinations) <= MaxItems }

NoArgs == [url |-> "", batch_id |-> "", persons_found |-> <<>>,
           verified_persons |-> <<>>, verified_locations |-> <<>>,
           verified_events |-> <<>>, relationship_determinations |-> <<>>,
           persons_intelligence |-> <<>>, conflicts_detected |-> <<>>,
           decision_fields |-> <<>>]

\* Names that differ from nAl in letter case or in whitespace only, and a pair
\* of names that differ in an inner space.
nal      == <<"a","l">>
nAlLead  == <<" ","A","l">>
nAlB     == <<"A","l"," ","B">>
nAlBWide == <<"A","l"," "," ","B">>

\* further entries of verified_persons
VariantEntries ==
    { [name |-> nAl, confidence |-> "confirmed"],
      [name |-> nAl, confidence |-> "indicated"],
      [name |-> nal],
      [name |-> nAlLead, confidence |-> "confirmed"],
      [name |-> nAlB],
      [name |-> nAlBWide] }

\* entries of the Decision output's persons_intelligence
IntelEntries ==
    { [name |-> nAl, power_index |-> [corroboration |-> 90]],
      [name |-> nAl, power_index |-> [corroboration |-> 55]],
      [name |-> nAl, category_inference |-> "legal"],
      [name |-> nAl, category_inference |-> ""] }

\* entries of conflicts_detected
ConflictEntries ==
    { [conflict_type |-> "date", description |-> "date mismatch",
       document_claim |-> <<"1","9","9","9">>, conflicting_claim |-> "2001"] }

\* calls whose outputs carry these entries
VariantArgs ==
    { a \in [url      : Urls,
             batch_id : {"dec_2025"},
             persons_found               : {<<>>},
             verified_persons            : SeqUpTo(VariantEntries, MaxPersons),
             verified_locations          : {<<>>},
             verified_events             : SeqUpTo(EventEntries, 1),
             relationship_determinations : {<<>>},
             persons_intelligence        : SeqUpTo(IntelEntries, 1),
             conflicts_detected          : SeqUpTo(ConflictEntries, 1),
             decision_fields             : {<<>>}] :
        Len(a.verified_persons) + Len(a.verified_events) + Len(a.persons_intelligence)
          + Len(a.conflicts_detected) <= MaxItems }

\* calls whose outputs have an entry for every step of the write phase: a
\* person entry to divert or two to upsert, and a detected conflict, beside a
\* location, an event and a relationship
FullArgs ==
    [url      : Urls,
     batch_id : {"dec_2025"},
     persons_found               : {<<>>},
     verified_persons            : { <<[name |-> nBo, possible_victim |-> TRUE],
                                       [name |-> nAl, confidence |-> "confirmed"]>>,
                                     <<[name |-> nAl, confidence |-> "confirmed"],
                                       [name |-> nBo]>> },
     verified_locations          : SeqUpTo(LocationEntries, 1),
     verified_events             : SeqUpTo(EventEntries, 1),
     relationship_determinations : SeqUpTo(RelationshipEntries, 1),
     persons_intelligence        : {<<>>},
     conflicts_detected          : [1..1 -> ConflictEntries],
     decision_fields             : {<<>>}]

\* the arguments of a call in RepeatSpec
WriterArgs == CallArgs \cup VariantArgs \cup FullArgs

DocumentMeta(a) == [url |-> a.url, ocr_quality |-> "clean"]
ScoutData(a) == [document_type |-> "flight_manifest", persons_found |-> a.persons_found,
                 _tokens_used |-> 1]
VerificationData(a) ==
    [verified_persons |-> a.verified_persons, verified_locations |-> a.verified_locations,
     verified_events |-> a.verified_events,
     conflicts_detected |-> a.conflicts_detected, _tokens_used |-> 1]
DecisionData(a) ==
    [relationship_determinations |-> a.relationship_determinations,
     persons_intelligence |-> a.persons_intelligence, _tokens_used |-> 1]
        @@ a.decision_fields

\* ------------------------------------------------------------ state machine
VARIABLES
    db,             \* the store
    args,           \* the arguments of the latest write_to_database call
    results,        \* what that call returned
    writes,         \* the store writes that call made, in order
    calls,          \* calls made with freshly chosen outputs
    rewrites,       \* calls made that repeated the previous call's outputs
    stage,          \* the stage function called: scout, verification, decision
    response,       \* the oracle's response to it: [text, input_tokens, output_tokens]
    stage_result,   \* "pending", or the call's outcome: [status, value, exc]
    urls,           \* the URL list of the process_batch call
    batch_results,  \* its `results` list
    doc,            \* its loop index i: the document being processed
    pc,             \* the step of process_document that document is at
    trace,          \* the steps run so far: [doc, stage, outcome], in order
    args_b,         \* the outputs of a second document, written after `args`
    db_swapped,     \* the store when the two documents are written second first
    swapped_calls   \* write_to_database calls made on db_swapped

writer_vars == <<db, args, results, writes, calls, rewrites>>
stage_vars  == <<stage, response, stage_result>>
batch_vars  == <<urls, batch_results, doc, pc, trace>>
reorder_vars == <<args_b, db_swapped, swapped_calls>>
vars == <<db, args, results, writes, calls, rewrites, stage, response, stage_result,
          urls, batch_results, doc, pc, trace, args_b, db_swapped, swapped_calls>>

Stages == {"scout", "verification", "decision"}
Pending == [status |-> "pending", value |-> <<>>]

\* no batch is running, and no second order of writing is followed
NoBatch ==
    /\ urls = <<>>
    /\ batch_results = <<>>
    /\ doc = 0
    /\ pc = "none"
    /\ trace = <<>>
    /\ args_b = NoArgs
    /\ db_swapped = EmptyDb
    /\ swapped_calls = 0

WriterInit ==
    /\ db = EmptyDb
    /\ args = NoArgs
    /\ results = WriterStart(EmptyDb).results
    /\ writes = <<>>
    /\ calls = 0
    /\ rewrites = 0

\* the store is empty and no stage is running
Init ==
    /\ WriterInit
    /\ NoBatch
    /\ stage = "none"
    /\ response = [text |-> <<>>, input_tokens |-> 0, output_tokens |-> 0]
    /\ stage_result = Pending

\* the effect of write_to_database called with the arguments a
Call(a) ==
    \E w \in {write_to_database(db, DocumentMeta(a), ScoutData(a), VerificationData(a),
                               DecisionData(a), a.batch_id)} :
        /\ db' = w.db
        /\ args' = a
        /\ results' = w.results
        /\ writes' = w.writes

\* process_document reaches step 5 with the stage outputs of a document
WriteToDatabase ==
    /\ calls < MaxWrites
    /\ rewrites = 0
    /\ \E a \in CallArgs : Call(a)
    /\ calls' = calls + 1
    /\ UNCHANGED <<rewrites, stage_vars, batch_vars, reorder_vars>>

\* the same document is processed again and the stages return the same outputs
WriteAgain ==
    /\ calls >= 1
    /\ rewrites < MaxRewrites
    /\ Call(args)
    /\ rewrites' = rewrites + 1
    /\ UNCHANGED <<calls, stage_vars, batch_vars, reorder_vars>>

Next == WriteToDatabase \/ WriteAgain

Spec == Init /\ [][Next]_vars

\* A stage function has been called and the oracle has answered.
StageInit ==
    /\ WriterInit
    /\ NoBatch
    /\ stage \in Stages
    /\ response \in [text : ResponseTexts, input_tokens : 0..MaxTokens,
                     output_tokens : 0..MaxTokens]
    /\ stage_result = Pending

RunScoutAgent ==
    /\ stage = "scout" /\ stage_result = Pending
    /\ stage_result' = run_scout_agent(response.text, response.input_tokens,
                                       response.output_tokens)
    /\ UNCHANGED <<writer_vars, stage, response, batch_vars, reorder_vars>>

RunVerificationHarness ==
    /\ stage = "verification" /\ stage_result = Pending
    /\ stage_result' = run_verification_harness(response.text, response.input_tokens,
                                                response.output_tokens)
    /\ UNCHANGED <<writer_vars, stage, response, batch_vars, reorder_vars>>

RunDecisionEngine ==
    /\ stage = "decision" /\ stage_result = Pending
    /\ stage_result' = run_decision_engine(response.text, response.input_tokens,
                                           response.output_tokens)
    /\ UNCHANGED <<writer_vars, stage, response, batch_vars, reorder_vars>>

StageNext == RunScoutAgent \/ RunVerificationHarness \/ RunDecisionEngine

StageSpec == StageInit /\ [][StageNext]_vars

\* The writer as a function of the store and its arguments: the store is one an
\* earlier document run left, write_to_database is called once with any
\* arguments and then once more with the same arguments.
SeedArgs ==
    { [NoArgs EXCEPT !.url = "https://www.justice.gov/epstein/doc-002.pdf",
                     !.batch_id = "manual",
                     !.verified_persons = <<[name |-> nBo]>>],
      [NoArgs EXCEPT !.url = "https://www.justice.gov/epstein/doc-002.pdf",
                     !.batch_id = "manual",
                     !.verified_persons = <<[name |-> nBo], [name |-> nAl]>>,
                     !.verified_locations = <<[name |-> nIsle]>>,
                     !.relationship_determinations =
                         <<[person_a |-> nAl, person_b |-> nBo]>>] }

\* the stores those runs leave, and the empty store
SeedStores ==
    {EmptyDb} \cup
    { write_to_database(EmptyDb, DocumentMeta(a), ScoutData(a), VerificationData(a),
                        DecisionData(a), a.batch_id).db : a \in SeedArgs }

RepeatInit ==
    /\ db \in SeedStores
    /\ args = NoArgs
    /\ results = WriterStart(EmptyDb).results
    /\ writes = <<>>
    /\ calls = 0
    /\ rewrites = 0
    /\ NoBatch
    /\ stage = "none"
    /\ response = [text |-> <<>>, input_tokens |-> 0, output_tokens |-> 0]
    /\ stage_result = Pending

\* the first call, with any arguments
FirstCall ==
    /\ calls = 0
    /\ \E a \in WriterArgs : Call(a)
    /\ calls' = 1
    /\ UNCHANGED <<rewrites, stage_vars, batch_vars, reorder_vars>>

\* the second call, with the arguments of the first
SecondCall ==
    /\ calls = 1 /\ rewrites = 0
    /\ Call(args)
    /\ rewrites' = 1
    /\ UNCHANGED <<calls, stage_vars, batch_vars, reorder_vars>>

RepeatNext == FirstCall \/ SecondCall

RepeatSpec == RepeatInit /\ [][RepeatNext]_vars

\* ------------------------------------------------------------ process_batch
\* process_batch(urls, batch_name) runs process_document on each URL in turn.
\* process_document is the six steps below, each awaiting the call it makes, and
\* the report it prints and returns after the write; a step is one action.  The oracle's answers and the failures of the network,
\* the oracle and the store are the environment's choice.
StageOrder ==
    <<"fetch", "scout", "context", "verification", "decision", "write", "report">>

StageIndex(s) == CHOOSE j \in 1..Len(StageOrder) : StageOrder[j] = s

\* (the steps after `s` with Verification and Decision exchanged)
NextStageSwapped(s) ==
    CASE s = "context" -> "decision"
      [] s = "decision" -> "verification"
      [] s = "verification" -> "write"
      [] OTHER -> StageOrder[StageIndex(s) + 1]

\* the step process_document runs after the step s has returned
NextStage(s) == StageOrder[StageIndex(s) + 1]

\* (a loop that passes over the following URL)
NextDocumentSkipping(i) == i + 2

\* `for i, url in enumerate(urls, 1)`: the index after i
NextDocument(i) == i + 1

\* (an except branch that records nothing)
AppendErrorDropped(rs, url, exc) == rs

\* results.append({"url": url, "status": "error", "error": str(e)})
AppendError(rs, url, exc) ==
    Append(rs, [url |-> url, status |-> "error", error |-> exc])

\* results.append({"url": url, "status": "success", **result}), with the counts
\* of process_document's return value (its intelligence_value, evidence_chain,
\* total_ms and pattern_flags are left out)
AppendSuccess(rs, url, db_results) ==
    Append(rs, [url |-> url, status |-> "success",
                document_id       |-> db_results["document_id"],
                persons_written   |-> db_results["persons_written"],
                locations_written |-> db_results["locations_written"],
                events_written    |-> db_results["events_written"],
                victim_flags      |-> db_results["victim_flags"]])

\* successful = len([r for r in results if r["status"] == "success"])
successful(rs) == Cardinality({ j \in 1..Len(rs) : rs[j].status = "success" })

\* the exception a failing step raises, as str(e)
ExceptionOf(s) == s \o " failed"

\* the store after the first n of the store writes ws, made on the store d
RECURSIVE ReplayWrites(_, _, _)
ReplayWrites(d, ws, n) ==
    IF n = 0 THEN d
    ELSE LET before == ReplayWrites(d, ws, n - 1)
             op     == ws[n]
             table  == before[op.table]
         IN  [before EXCEPT ![op.table] =
                 IF op.created THEN Append(table, op.row)
                 ELSE [j \in 1..Len(table) |->
                          IF table[j]["id"] = op.row["id"] THEN op.row ELSE table[j]]]

\* the outputs the oracle gives in a batch run
BatchName == "dec_2025"
ScoutOutputs == { <<>> }
VerificationOutputs ==
    { <<[name |-> nAl, confidence |-> "confirmed"]>>,
      <<[name |-> nBo, possible_victim |-> TRUE]>> }
DecisionOutputs == { <<>> }

\* the further keys of the Decision output: intelligence_value as a JSON string
\* or as JSON null (values as JsonLoads gives them)
DecisionFields ==
    { [intelligence_value |-> [type |-> "str", value |-> "high"]],
      [intelligence_value |-> [type |-> "NoneType"]] }

\* the lines of process_document after the write:
\* decision_data.get('intelligence_value', 'unknown').upper() and
\* decision_data.get('evidence_chain', '')[:100]
\* give None, or str(e) of the exception e they raise
ReportError(decision_data) ==
    LET iv == Get(decision_data, "intelligence_value", [type |-> "str"])
        ec == Get(decision_data, "evidence_chain", [type |-> "str"])
    IN  IF iv.type # "str"
        THEN Some("'" \o iv.type \o "' object has no attribute 'upper'")
        ELSE IF ec.type \in {"str", "list"} THEN <<>>
        ELSE IF ec.type = "dict" THEN Some("unhashable type: 'slice'")
        ELSE Some("'" \o ec.type \o "' object is not subscriptable")

Event(s, outcome) == [doc |-> doc, stage |-> s, outcome |-> outcome]

\* process_batch is called on an empty store
BatchInit ==
    /\ WriterInit
    /\ stage = "none"
    /\ response = [text |-> <<>>, input_tokens |-> 0, output_tokens |-> 0]
    /\ stage_result = Pending
    /\ urls \in SeqUpTo(Urls, MaxBatch)
    /\ batch_results = <<>>
    /\ doc = 1
    /\ pc = "fetch"
    /\ trace = <<>>
    /\ args_b = NoArgs
    /\ db_swapped = EmptyDb
    /\ swapped_calls = 0

\* the loop body is running on urls[doc]
InDocument == doc \in 1..Len(urls)

\* a step other than the write returns
StepReturns(s) ==
    /\ InDocument /\ pc = s
    /\ pc' = NextStage(s)
    /\ trace' = Append(trace, Event(s, "completed"))
    /\ UNCHANGED <<db, results, writes, calls, rewrites, stage_vars,
                   urls, batch_results, doc, reorder_vars>>

\* Step 0: document = await fetch_document(url)
FetchDocument ==
    /\ StepReturns("fetch")
    /\ args' = [NoArgs EXCEPT !.url = urls[doc], !.batch_id = BatchName]

\* Step 1: scout_data = await run_scout_agent(document, text_chunk)
ScoutStep ==
    /\ StepReturns("scout")
    /\ \E o \in ScoutOutputs : args' = [args EXCEPT !.persons_found = o]

\* Step 2: db_context = await get_database_context(person_names, location_names),
\* which reads the store
ContextStep ==
    /\ StepReturns("context")
    /\ UNCHANGED args

\* Step 3: verification_data = await run_verification_harness(...)
VerificationStep ==
    /\ StepReturns("verification")
    /\ \E o \in VerificationOutputs : args' = [args EXCEPT !.verified_persons = o]

\* Step 4: decision_data = await run_decision_engine(...)
DecisionStep ==
    /\ StepReturns("decision")
    /\ \E o \in DecisionOutputs, f \in DecisionFields :
          args' = [args EXCEPT !.relationship_determinations = o, !.decision_fields = f]

\* Step 5: db_results = await write_to_database(...) returns
WriteStep ==
    /\ InDocument /\ pc = "write"
    /\ Call(args)
    /\ pc' = NextStage("write")
    /\ trace' = Append(trace, Event("write", "completed"))
    /\ UNCHANGED <<calls, rewrites, stage_vars, urls, batch_results, doc, reorder_vars>>

\* process_document prints its report and returns, which ends the life of its
\* locals; process_batch appends the success entry and goes to the next URL
ReportStep ==
    /\ InDocument /\ pc = "report"
    /\ ReportError(DecisionData(args)) = <<>>
    /\ batch_results' = AppendSuccess(batch_results, urls[doc], results)
    /\ trace' = Append(trace, Event("report", "completed"))
    /\ doc' = NextDocument(doc)
    /\ pc' = "fetch"
    /\ args' = NoArgs
    /\ UNCHANGED <<db, results, writes, calls, rewrites, stage_vars, urls, reorder_vars>>

\* the report raises on a Decision output it cannot print, after the write
\* returned; process_batch catches the exception and appends the error entry
ReportRaises ==
    /\ InDocument /\ pc = "report"
    /\ ReportError(DecisionData(args)) # <<>>
    /\ batch_results' = AppendError(batch_results, urls[doc],
                                    ReportError(DecisionData(args))[1])
    /\ trace' = Append(trace, Event("report", "raised"))
    /\ doc' = NextDocument(doc)
    /\ pc' = "fetch"
    /\ args' = NoArgs
    /\ UNCHANGED <<db, results, writes, calls, rewrites, stage_vars, urls, reorder_vars>>

\* a step before the write raises; process_batch catches the exception,
\* appends the error entry and goes to the next URL
StepRaises ==
    /\ InDocument /\ pc \notin {"write", "report"}
    /\ batch_results' = AppendError(batch_results, urls[doc], ExceptionOf(pc))
    /\ trace' = Append(trace, Event(pc, "raised"))
    /\ doc' = NextDocument(doc)
    /\ pc' = "fetch"
    /\ args' = NoArgs
    /\ UNCHANGED <<db, results, writes, calls, rewrites, stage_vars, urls, reorder_vars>>

\* a store call of write_to_database raises after n of its store writes were
\* made: those stay in the store, and process_batch catches the exception
WriteRaises ==
    /\ InDocument /\ pc = "write"
    /\ \E w \in {write_to_database(db, DocumentMeta(args), ScoutData(args),
                                   VerificationData(args), DecisionData(args),
                                   args.batch_id)} :
         \E n \in 0..(Len(w.writes) - 1) :
            /\ db' = ReplayWrites(db, w.writes, n)
            /\ writes' = SubSeq(w.writes, 1, n)
    /\ batch_results' = AppendError(batch_results, urls[doc], ExceptionOf(pc))
    /\ trace' = Append(trace, Event("write", "raised"))
    /\ doc' = NextDocument(doc)
    /\ pc' = "fetch"
    /\ args' = NoArgs
    /\ UNCHANGED <<results, calls, rewrites, stage_vars, urls, reorder_vars>>

BatchNext ==
    \/ FetchDocument \/ ScoutStep \/ ContextStep \/ VerificationStep \/ DecisionStep
    \/ WriteStep \/ ReportStep \/ ReportRaises \/ StepRaises \/ WriteRaises

BatchSpec == BatchInit /\ [][BatchNext]_vars

\* process_batch has returned `batch_results`
BatchReturned == pc = "fetch" /\ doc > Len(urls)

\* ----------------------------------------------------- two orders of writing
\* Two documents' outputs are written to a store in one order (on db) and in
\* the opposite order (on db_swapped), from the same initial store.
ReorderArgs ==
    { [NoArgs EXCEPT !.url = "https://www.justice.gov/epstein/doc-001.pdf",
                     !.batch_id = "dec_2025",
                     !.verified_persons = <<[name |-> nAl, confidence |-> "confirmed"]>>,
                     !.verified_locations = <<[name |-> nIsle, location_type |-> "island"]>>],
      [NoArgs EXCEPT !.url = "https://www.justice.gov/epstein/doc-002.pdf",
                     !.batch_id = "dec_2025",
                     !.verified_persons = <<[name |-> nAl, confidence |-> "indicated"]>>],
      [NoArgs EXCEPT !.url = "https://www.justice.gov/epstein/doc-002.pdf",
                     !.batch_id = "dec_2025",
                     !.verified_persons = <<[name |-> nAl, confidence |-> "confirmed"],
                                            [name |-> nBo]>>,
                     !.relationship_determinations =
                         <<[person_a |-> nAl, person_b |-> nBo]>>],
      [NoArgs EXCEPT !.url = "https://www.justice.gov/epstein/doc-001.pdf",
                     !.batch_id = "dec_2025",
                     !.verified_persons = <<[name |-> nBo],
                                            [name |-> nAl, confidence |-> "confirmed"]>>,
                     !.verified_locations = <<[name |-> nIsle]>>,
                     !.relationship_determinations =
                         <<[person_a |-> nAl, person_b |-> nBo,
                            co_occurrence_count |-> 2]>>],
      [NoArgs EXCEPT !.url = "https://www.justice.gov/epstein/doc-001.pdf",
                     !.batch_id = "dec_2025",
                     !.verified_persons = <<[name |-> nBo, possible_victim |-> TRUE]>>,
                     !.verified_locations = <<[name |-> nIsle, location_type |-> "island"]>>] }

\* the store write_to_database leaves when called on the store d with a
Written(d, a) ==
    write_to_database(d, DocumentMeta(a), ScoutData(a), VerificationData(a),
                      DecisionData(a), a.batch_id).db

ReorderInit ==
    /\ db \in SeedStores
    /\ db_swapped = db
    /\ args \in ReorderArgs
    /\ args_b \in ReorderArgs
    /\ results = WriterStart(EmptyDb).results
    /\ writes = <<>>
    /\ calls = 0
    /\ rewrites = 0
    /\ swapped_calls = 0
    /\ stage = "none"
    /\ response = [text |-> <<>>, input_tokens |-> 0, output_tokens |-> 0]
    /\ stage_result = Pending
    /\ urls = <<>>
    /\ batch_results = <<>>
    /\ doc = 0
    /\ pc = "none"
    /\ trace = <<>>

\* in the one order: the first document, then the second
WriteFirst ==
    /\ calls = 0
    /\ db' = Written(db, args)
    /\ calls' = 1
    /\ UNCHANGED <<args, results, writes, rewrites, stage_vars, batch_vars, reorder_vars>>

WriteSecond ==
    /\ calls = 1
    /\ db' = Written(db, args_b)
    /\ calls' = 2
    /\ UNCHANGED <<args, results, writes, rewrites, stage_vars, batch_vars, reorder_vars>>

\* in the opposite order: the second document, then the first
SwappedWriteSecond ==
    /\ swapped_calls = 0
    /\ db_swapped' = Written(db_swapped, args_b)
    /\ swapped_calls' = 1
    /\ UNCHANGED <<writer_vars, stage_vars, batch_vars, args_b>>

SwappedWriteFirst ==
    /\ swapped_calls = 1
    /\ db_swapped' = Written(db_swapped, args)
    /\ swapped_calls' = 2
    /\ UNCHANGED <<writer_vars, stage_vars, batch_vars, args_b>>

ReorderNext == WriteFirst \/ WriteSecond \/ SwappedWriteSecond \/ SwappedWriteFirst

ReorderSpec == ReorderInit /\ [][ReorderNext]_vars

\* ------------------------------------------------------------------ claims
\* What the claims speak of, read off the latest call's arguments and writes.
StrippedName(entry) == Strip(Get(entry, "name", <<>>))

\* the victim-protection predicate as the specification words it: the entry is
\* flagged possible_victim, or its stripped name contains a protected term
IsProtected(entry) ==
    \/ Get(entry, "possible_victim", FALSE) = TRUE
    \/ \E k \in 1..Len(VICTIM_PROTECTION_KEYWORDS) :
          Contains(VICTIM_PROTECTION_KEYWORDS[k], Lower(StrippedName(entry)))

\* the names of verified_persons the predicate holds for
ProtectedNames ==
    { StrippedName(args.verified_persons[i]) :
        i \in { j \in 1..Len(args.verified_persons) : IsProtected(args.verified_persons[j]) } }

\* the names the latest call diverted: the predicate holds and the writer did
\* not skip the entry as nameless
DivertedNames == { n \in ProtectedNames : Len(n) >= 2 }

\* the names the Extraction output flagged
ScoutFlaggedNames ==
    { StrippedName(args.persons_found[i]) :
        i \in { j \in 1..Len(args.persons_found) :
                  Get(args.persons_found[j], "possible_victim", FALSE) = TRUE } }

WritesOn(table) == { i \in 1..Len(writes) : writes[i].table = table }

\* the full_name of the Person row with the given id
NameOfPerson(id) ==
    LET rows == SelectEq(db["persons"], "id", id) IN rows[1]["full_name"]

\* the latest call created or updated the Person row of this name
PersonRowWritten(name) ==
    \E i \in WritesOn("persons") : writes[i].row["full_name"] = name

\* the latest call created or updated a person-document link of this name
PersonLinkWritten(name) ==
    \E i \in WritesOn("person_documents") :
        NameOfPerson(writes[i].row["person_id"]) = name

\* C1: for every verified_persons entry the victim-protection predicate holds
\* for, the call creates or updates no Person row and no person-document link
\* for that name.
C1_NoWriteForProtectedName ==
    \A n \in ProtectedNames : ~PersonRowWritten(n) /\ ~PersonLinkWritten(n)

\* C2: for every name the Extraction output flagged possible_victim, the call
\* creates or updates no Person row and no person-document link, also when
\* verified_persons lists the name without the flag.
C2_NoWriteForScoutFlaggedName ==
    \A n \in ScoutFlaggedNames : ~PersonRowWritten(n) /\ ~PersonLinkWritten(n)

\* the diverted names the latest call wrote no Person row for: a Person row of
\* such a name, if there is one, was in the store before the call
DivertedNamesNotWritten == { n \in DivertedNames : ~PersonRowWritten(n) }

\* C3: no Relationship row the call creates or updates has as person_a or
\* person_b a person whose name the call diverted.  (Stated for the diverted
\* names the call wrote no Person row for, the claim's case of a Person row
\* that an earlier document persisted.)
C3_NoRelationshipOfDivertedName ==
    \A i \in WritesOn("person_relationships") :
        /\ NameOfPerson(writes[i].row["person_a_id"]) \notin DivertedNamesNotWritten
        /\ NameOfPerson(writes[i].row["person_b_id"]) \notin DivertedNamesNotWritten

\* C4: no event_persons row the call writes links an event to a Person whose
\* name the call diverted.  (Stated for the diverted names the call wrote no
\* Person row for, the claim's case of a pre-existing Person row.)
C4_NoEventLinkOfDivertedName ==
    \A i \in WritesOn("event_persons") :
        NameOfPerson(writes[i].row["person_id"]) \notin DivertedNamesNotWritten

\* the victim_flag ConflictRecords the latest call inserted
VictimFlagInserts ==
    { i \in WritesOn("conflict_records") : writes[i].row["conflict_field"] = "victim_flag" }

\* those of them that describe the name n
VictimFlagInsertsOf(n) ==
    { i \in VictimFlagInserts : writes[i].row["document_a_claim"] = PossibleVictimPrefix \o n }

\* no name is listed in two entries of verified_persons
NamesListedOnce ==
    \A i, j \in 1..Len(args.verified_persons) :
        StrippedName(args.verified_persons[i]) = StrippedName(args.verified_persons[j])
            => i = j

\* C5: every name the predicate holds for gets exactly one victim_flag
\* ConflictRecord in the call, and victim_flags is the number of those names.
\* (Stated for the calls that list no name twice, where the entries the
\* predicate holds for and the names it holds for are as many.)
C5_OneRecordPerName ==
    NamesListedOnce =>
        /\ \A n \in ProtectedNames : Cardinality(VictimFlagInsertsOf(n)) = 1
        /\ results["victim_flags"] = Cardinality(ProtectedNames)

RowCounts == <<Len(db["persons"]), Len(db["locations"]), Len(db["person_relationships"])>>

\* C6: a second call with the same outputs leaves the numbers of Person,
\* Location and Relationship rows as the first call left them.
C6_SecondWriteAddsNoRow ==
    [][rewrites' = rewrites + 1 => RowCounts' = RowCounts]_vars

\* C6 witness: the repeated call upserted a person, a location and a
\* relationship, on a store an earlier document had written to
C6_Witness ==
    /\ rewrites = 1
    /\ Len(db["person_documents"]) > Len(db["persons"])
    /\ WritesOn("persons") # {}
    /\ WritesOn("locations") # {}
    /\ WritesOn("person_relationships") # {}

\* C7: no two Relationship rows are of the same unordered pair of persons.
C7_OneRowPerUnorderedPair ==
    \A i, j \in 1..Len(db["person_relationships"]) :
        LET r == db["person_relationships"] IN
        {r[i]["person_a_id"], r[i]["person_b_id"]} = {r[j]["person_a_id"], r[j]["person_b_id"]}
            => i = j

\* C8: when a call updates the Relationship row of a pair an earlier write
\* observed, the row's co_occurrence_count grows: it counts both observations.
C8_CountAccumulates ==
    [][\A i \in 1..Len(db["person_relationships"]) :
          (\E k \in 1..Len(writes') :
              /\ writes'[k].table = "person_relationships"
              /\ writes'[k].row["id"] = db["person_relationships"][i]["id"])
          => db'["person_relationships"][i]["co_occurrence_count"]
                > db["person_relationships"][i]["co_occurrence_count"]]_vars

\* the oracle's response is not JSON
ResponseNotJson == JsonLoads(CleanOutput(response.text)).type = "JSONDecodeError"

\* C9: on a response that is not JSON, each stage returns an object with
\* requires_human_review = true.
C9_FallbackAsksForReview ==
    (stage_result # Pending /\ ResponseNotJson) =>
        /\ stage_result.status = "returned"
        /\ "requires_human_review" \in DOMAIN stage_result.value
        /\ stage_result.value["requires_human_review"] = TRUE

\* C10: whatever the response text, each stage returns a stage object and does
\* not raise.
C10_StageNeverRaises ==
    stage_result # Pending => stage_result.status = "returned"

\* -------------------------------------------------------- claims on the batch
\* the steps run for the document d, in order
TraceOf(d) == SelectSeq(trace, LAMBDA e : e.doc = d)

\* the documents whose processing raised
RaisedDocs == { trace[j].doc : j \in { k \in 1..Len(trace) : trace[k].outcome = "raised" } }

\* the document d ran all its steps, the write and the report after it
\* included, and none raised
FullyRun(d) ==
    /\ Len(TraceOf(d)) = Len(StageOrder)
    /\ \A j \in 1..Len(StageOrder) :
          TraceOf(d)[j].stage = StageOrder[j] /\ TraceOf(d)[j].outcome = "completed"

\* the Document rows of the URL u
DocumentRowsOf(u) == SelectEq(db["documents"], "doc_reference_id", DocReferenceId(u))

\* C11: whatever documents raise, and at whatever step, process_batch has one
\* result entry per URL it has gone through, in input order; the entry of a
\* document is "error" exactly when its processing raised; every other document
\* ran the whole pipeline, its write phase included, and its Document row is in
\* the store under the id its entry reports; and when process_batch returns,
\* there is an entry for every URL and the success count is the number of
\* documents that did not raise.
C11_PartialFailureIsolation ==
    /\ doc >= 1 => Len(batch_results) = doc - 1
    /\ \A j \in 1..Len(batch_results) :
          /\ batch_results[j].url = urls[j]
          /\ batch_results[j].status = "error" <=> j \in RaisedDocs
          /\ j \notin RaisedDocs =>
                /\ batch_results[j].status = "success"
                /\ FullyRun(j)
                /\ DocumentRowsOf(urls[j]) # <<>>
                /\ batch_results[j].document_id = Some(DocumentRowsOf(urls[j])[1]["id"])
    /\ BatchReturned =>
          /\ Len(batch_results) = Len(urls)
          /\ successful(batch_results) = Len(urls) - Cardinality(RaisedDocs)

\* C11 witness: a batch of three documents has returned; the fetch of the second
\* raised, the first and the third were written, and two of three succeeded
C11_Witness ==
    /\ BatchReturned /\ Len(urls) = 3
    /\ RaisedDocs = {2}
    /\ TraceOf(2) = <<[doc |-> 2, stage |-> "fetch", outcome |-> "raised"]>>
    /\ FullyRun(1) /\ FullyRun(3)
    /\ successful(batch_results) = 2
    /\ Len(db["agent_processing_log"]) = 2

\* the steps run for the document d are the first steps of the order, each
\* after its predecessor returned; a step that raised is the last
InStageOrder(d) ==
    /\ Len(TraceOf(d)) <= Len(StageOrder)
    /\ \A j \in 1..Len(TraceOf(d)) :
          /\ TraceOf(d)[j].stage = StageOrder[j]
          /\ j < Len(TraceOf(d)) => TraceOf(d)[j].outcome = "completed"

\* the five steps before the write have run for the document d and returned
ReadyToWrite(d) ==
    /\ Len(TraceOf(d)) = StageIndex("write") - 1
    /\ \A j \in 1..Len(TraceOf(d)) : TraceOf(d)[j].outcome = "completed"

\* C12: for every document the steps run in the order Fetch, Extraction,
\* Context assembly, Verification, Decision, Write, each after its predecessor
\* returned; after a step raised no further step of that document runs; and the
\* store changes only in the write step of a document whose five earlier steps
\* all returned.
C12_StagesInOrder ==
    /\ [](\A d \in 1..Len(urls) : InStageOrder(d))
    /\ [][db' # db => (pc = "write" /\ ReadyToWrite(doc))]_vars

\* C12 witness: the Verification step of a document raised after its first three
\* steps returned, the batch went on, and the store holds nothing of that document
C12_Witness ==
    \E d \in 1..Len(urls) :
        /\ doc > d
        /\ Len(TraceOf(d)) = 4
        /\ TraceOf(d)[4] = [doc |-> d, stage |-> "verification", outcome |-> "raised"]
        /\ DocumentRowsOf(urls[d]) = <<>>
        /\ \E e \in 1..Len(urls) : FullyRun(e)

\* the step is the last of its document: it raised, or it is the report that
\* follows the write
Terminal(e) == e.outcome = "raised" \/ e.stage = "report"

\* C13: the steps of a batch run document by document in list order: the first
\* step run is of the first URL, and a step of another document than the step
\* before it is the fetch of the next URL, run after the earlier document's
\* pipeline ended with its write phase or with a caught failure; so the store
\* writes of two documents never interleave.
C13_OneDocumentAtATime ==
    /\ trace # <<>> => trace[1].doc = 1
    /\ \A j \in 1..Len(trace) : trace[j].doc \in 1..Len(urls)
    /\ \A j \in 1..(Len(trace) - 1) :
          \/ trace[j + 1].doc = trace[j].doc /\ ~Terminal(trace[j])
          \/ /\ trace[j + 1].doc = trace[j].doc + 1
             /\ trace[j + 1].stage = "fetch"
             /\ Terminal(trace[j])

\* C13 witness: three documents have been processed; the first was written, the
\* write phase of the second raised part-way, and the third was written after it
C13_Witness ==
    /\ BatchReturned /\ Len(urls) = 3
    /\ FullyRun(1) /\ FullyRun(3)
    /\ Len(TraceOf(2)) = 6 /\ TraceOf(2)[6].outcome = "raised"
    /\ Len(db["documents"]) >= 2

\* ------------------------------------------------ claims on the store's rows
\* the corroboration sub-score the specification fixes for a confidence level
CorroborationOf(confidence) ==
    CASE confidence = "confirmed"    -> 90
      [] confidence = "corroborated" -> 70
      [] confidence = "indicated"    -> 40
      [] confidence = "unverified"   -> 15

\* C14: every Person row a call creates or updates has the corroboration
\* sub-score that the fixed mapping gives for the confidence stored on that row,
\* whatever power index the Decision output supplies for the person, or none.
C14_CorroborationFollowsConfidence ==
    \A i \in WritesOn("persons") :
        writes[i].row["power_corroboration"]
            = Some(CorroborationOf(writes[i].row["confidence"]))

\* a name with every run of whitespace made one space, from position i on
RECURSIVE CollapseFrom(_, _)
CollapseFrom(s, i) ==
    IF i > Len(s) THEN <<>>
    ELSE IF s[i] \in Whitespace
         THEN IF i > 1 /\ s[i - 1] \in Whitespace
              THEN CollapseFrom(s, i + 1)
              ELSE <<" ">> \o CollapseFrom(s, i + 1)
         ELSE <<s[i]>> \o CollapseFrom(s, i + 1)

\* the normalized full name of the specification: no outer whitespace, inner
\* whitespace runs as one space, letters in lower case
NormalizedName(name) == Lower(CollapseFrom(Strip(name), 1))

\* C15: no two Person rows have the same normalized full name: names that
\* differ only in letter case or in whitespace are one Person row.
C15_OneRowPerNormalizedName ==
    \A i, j \in 1..Len(db["persons"]) :
        NormalizedName(db["persons"][i]["full_name"])
            = NormalizedName(db["persons"][j]["full_name"]) => i = j

\* the Document rows that hold the URL u
DocumentRowsAt(u) == SelectEq(db["documents"], "doj_url", u)

\* the runs the processing log records for the document row of the URL u
RunsOn(u) ==
    SelectSeq(db["agent_processing_log"],
              LAMBDA r : r["document_id"] = Some(DocumentRowsOf(u)[1]["id"]))

\* C16: the store never holds two Document rows of one URL; after a call there
\* is exactly one row of the call's URL, it carries the call's batch label and
\* its id is the document identity the call returned; and a call on a URL that
\* has a row returns that row's id and adds no Document row.
C16_OneDocumentRowPerUrl ==
    /\ [](/\ \A u \in Urls : Len(DocumentRowsOf(u)) <= 1 /\ Len(DocumentRowsAt(u)) <= 1
          /\ calls >= 1 =>
                /\ Len(DocumentRowsOf(args.url)) = 1
                /\ DocumentRowsAt(args.url) = DocumentRowsOf(args.url)
                /\ DocumentRowsOf(args.url)[1]["release_batch"] = args.batch_id
                /\ results["document_id"] = Some(DocumentRowsOf(args.url)[1]["id"]))
    /\ [][\A u \in Urls :
            (DocumentRowsOf(u) # <<>> /\ args'.url = u /\ writes' # <<>>) =>
                /\ results'["document_id"] = Some(DocumentRowsOf(u)[1]["id"])
                /\ Len(db'["documents"]) = Len(db["documents"])]_vars

\* C16 witness: the URL of the call was processed three times, first under the
\* batch label "manual" and then twice under "dec_2025" with other outputs; the
\* store holds one Document row for it, under the later label
C16_Witness ==
    /\ rewrites = 1
    /\ Len(DocumentRowsOf(args.url)) = 1
    /\ Len(RunsOn(args.url)) = 3
    /\ RunsOn(args.url)[1]["batch_id"] = "manual"
    /\ DocumentRowsOf(args.url)[1]["release_batch"] = "dec_2025"
    /\ args.verified_persons # <<>>

\* a row without the id the store generated for it
WithoutId(row) == [c \in (DOMAIN row) \ {"id"} |-> row[c]]

\* the full_name of the Person row with the given id in the store d
PersonNameIn(d, id) == SelectEq(d["persons"], "id", id)[1]["full_name"]

\* the Person, Location and Relationship state of the store d: the rows with
\* their attribute values, persons and locations under their names and
\* relationships under the names of their two persons
EntityState(d) ==
    [persons   |-> { WithoutId(d["persons"][i]) : i \in 1..Len(d["persons"]) },
     locations |-> { WithoutId(d["locations"][i]) : i \in 1..Len(d["locations"]) },
     relationships |->
        { [person_a |-> PersonNameIn(d, d["person_relationships"][i]["person_a_id"]),
           person_b |-> PersonNameIn(d, d["person_relationships"][i]["person_b_id"]),
           relationship_type   |-> d["person_relationships"][i]["relationship_type"],
           evidence_strength   |-> d["person_relationships"][i]["evidence_strength"],
           co_occurrence_count |-> d["person_relationships"][i]["co_occurrence_count"]] :
          i \in 1..Len(d["person_relationships"]) }]

\* the names an output lists among its verified persons and locations
NamesOf(a) ==
    { Strip(a.verified_persons[i]["name"]) : i \in 1..Len(a.verified_persons) }
    \cup { Strip(a.verified_locations[i]["name"]) : i \in 1..Len(a.verified_locations) }

\* C17: when two documents' outputs that mention a common person or location
\* have been written in the one order and in the opposite order from the same
\* store, the two stores hold the same Person, Location and Relationship rows
\* with the same attribute values.
C17_ReorderingConverges ==
    (calls = 2 /\ swapped_calls = 2 /\ NamesOf(args) \cap NamesOf(args_b) # {})
        => EntityState(db) = EntityState(db_swapped)

\* the number of rows of each table of the set T, in the store d
RowCountsOf(d, T) == [t \in T |-> Len(d[t])]

\* the tables the writer appends to on every call
AppendOnlyTables ==
    {"events", "event_documents", "event_persons", "conflict_records"}

\* C18 as stated: a second call with the same outputs adds rows only to the
\* event records, their links and the conflict log, and to no other table.
C18_OnlyEventsAndConflictsGrow ==
    [][rewrites' = rewrites + 1 =>
          RowCountsOf(db', Tables \ AppendOnlyTables)
              = RowCountsOf(db, Tables \ AppendOnlyTables)]_vars

\* C18 as amended: a second call with the same outputs adds no row to the
\* documents, persons, person_documents, locations and person_relationships
\* tables; it adds exactly one row to the processing log; its other new rows
\* are event rows, event links and conflict records.
C18_SecondWriteAddsOnlyLogRows ==
    [][rewrites' = rewrites + 1 =>
          /\ RowCountsOf(db', Tables \ (AppendOnlyTables \cup {"agent_processing_log"}))
                = RowCountsOf(db, Tables \ (AppendOnlyTables \cup {"agent_processing_log"}))
          /\ Len(db'["agent_processing_log"]) = Len(db["agent_processing_log"]) + 1
          /\ \A t \in AppendOnlyTables : Len(db'[t]) >= Len(db[t])]_vars

\* C18 witness: the repeated call updated the document row and a person-document
\* link without creating one, inserted an event, and logged the run
C18_Witness ==
    /\ rewrites = 1
    /\ \E i \in WritesOn("documents") : ~writes[i].created
    /\ \E i \in WritesOn("person_documents") : ~writes[i].created
    /\ \E i \in WritesOn("events") : writes[i].created
    /\ \E i \in WritesOn("agent_processing_log") : writes[i].created
    /\ Len(db["agent_processing_log"]) >= 2

\* the table t of the store after a step holds the rows it held before it,
\* unchanged and in place, and n new rows after them
Appended(t, n) ==
    /\ Len(db'[t]) = Len(db[t]) + n
    /\ SubSeq(db'[t], 1, Len(db[t])) = db[t]

\* the store writes of a call that were made on the table t
WritesIn(ws, t) == { i \in 1..Len(ws) : ws[i].table = t }

\* C19: every call leaves the Event rows and ConflictRecords it found unchanged
\* and in place and appends one Event row per entry of verified_events and one
\* ConflictRecord per entry of conflicts_detected (beside one per diverted
\* person entry); a repeated call appends as many of both as the call before it.
C19_EventsAndConflictsAppendOnly ==
    [][writes' # <<>> =>
          /\ Appended("events", Len(args'.verified_events))
          /\ Appended("conflict_records",
                      Len(args'.conflicts_detected) + results'["victim_flags"])
          /\ Cardinality({ i \in WritesIn(writes', "conflict_records") :
                             writes'[i].row["conflict_field"] # "victim_flag" })
                = Len(args'.conflicts_detected)
          /\ rewrites' = rewrites + 1 =>
                /\ Cardinality(WritesIn(writes', "events"))
                      = Cardinality(WritesIn(writes, "events"))
                /\ Cardinality(WritesIn(writes', "conflict_records"))
                      = Cardinality(WritesIn(writes, "conflict_records"))]_vars

\* C19 witness: an output with an event and a detected conflict was written
\* twice; the store holds two Event rows and two ConflictRecords of it that
\* differ in their ids only
C19_Witness ==
    /\ rewrites = 1
    /\ Len(args.verified_events) = 1 /\ Len(args.conflicts_detected) = 1
    /\ \E i, j \in 1..Len(db["events"]) :
          i # j /\ WithoutId(db["events"][i]) = WithoutId(db["events"][j])
    /\ \E i, j \in 1..Len(db["conflict_records"]) :
          /\ i # j
          /\ db["conflict_records"][i]["conflict_field"] = "date mismatch"
          /\ WithoutId(db["conflict_records"][i]) = WithoutId(db["conflict_records"][j])

\* the rows of the table t the latest call created or updated, by id
RowsWritten(t) == { writes[i].row["id"] : i \in WritesOn(t) }

\* C20 as stated: persons_written and locations_written are the numbers of
\* Person and Location rows the call created or updated, events_written the
\* number of Event rows it inserted and conflicts_logged the number of
\* ConflictRecords it inserted.
C20_CountsAreRowsWritten ==
    calls >= 1 =>
        /\ results["persons_written"] = Cardinality(RowsWritten("persons"))
        /\ results["locations_written"] = Cardinality(RowsWritten("locations"))
        /\ results["events_written"] = Cardinality(RowsWritten("events"))
        /\ results["conflicts_logged"] = Cardinality(RowsWritten("conflict_records"))

\* the verified_persons entries the call upserts: the stripped name has at least
\* two characters and the victim-protection predicate does not hold
UpsertedEntries ==
    { i \in 1..Len(args.verified_persons) :
        /\ Len(StrippedName(args.verified_persons[i])) >= 2
        /\ ~IsProtected(args.verified_persons[i]) }

\* the verified_locations entries whose stripped name has at least two characters
NamedLocations ==
    { i \in 1..Len(args.verified_locations) :
        Len(StrippedName(args.verified_locations[i])) >= 2 }

\* C20 as amended: persons_written and locations_written are the numbers of
\* person and location upserts the call made, one per entry it did not skip or
\* divert (a name listed twice counts twice though it is one row);
\* events_written is the number of Event rows inserted; conflicts_logged is the
\* number of conflicts_detected entries, and the ConflictRecords of victim
\* diversions are counted in victim_flags instead.
C20_CountsAreWritesMade ==
    calls >= 1 =>
        /\ results["persons_written"] = Cardinality(WritesOn("persons"))
        /\ results["persons_written"] = Cardinality(UpsertedEntries)
        /\ results["locations_written"] = Cardinality(WritesOn("locations"))
        /\ results["locations_written"] = Cardinality(NamedLocations)
        /\ results["events_written"] = Cardinality(RowsWritten("events"))
        /\ results["events_written"] = Len(args.verified_events)
        /\ results["conflicts_logged"] = Len(args.conflicts_detected)
        /\ results["conflicts_logged"] + results["victim_flags"]
              = Cardinality(RowsWritten("conflict_records"))

\* C20 witness: a call listed one name twice and logged a detected conflict:
\* it reports two persons written for the one Person row it wrote, and one
\* conflict logged
C20_Witness ==
    /\ calls >= 1
    /\ results["persons_written"] = 2 /\ Cardinality(RowsWritten("persons")) = 1
    /\ results["conflicts_logged"] = 1
    /\ Cardinality(RowsWritten("conflict_records")) = 1

\* ---------------------------------------------- claims on the write phase
\* the step of the write phase a table is written in, by the table alone
StepOfTable(t) ==
    CASE t = "documents" -> 1
      [] t \in {"persons", "person_documents"} -> 2
      [] t = "locations" -> 3
      [] t \in {"events", "event_documents", "event_persons"} -> 4
      [] t = "person_relationships" -> 5
      [] t = "conflict_records" -> 6
      [] t = "agent_processing_log" -> 7

\* the step a store write belongs to: as its table says, but the ConflictRecord
\* of a victim diversion is a write of the person step
StepOf(op) ==
    IF op.table = "conflict_records" /\ op.row["conflict_field"] = "victim_flag"
    THEN 2 ELSE StepOfTable(op.table)

\* the call's first store write is its one Document upsert, and its last is its
\* one processing-log insert
DocumentFirstLogLast ==
    /\ writes[1].table = "documents"
    /\ Cardinality(WritesOn("documents")) = 1
    /\ writes[Len(writes)].table = "agent_processing_log"
    /\ Cardinality(WritesOn("agent_processing_log")) = 1

\* C21 as stated: within a call the Document upsert comes first, person writes
\* come before location writes, these before event writes, these before
\* relationship writes, these before every ConflictRecord insert, and exactly
\* one ProcessingLogEntry is appended after all of them.
C21_WritesInTableOrder ==
    calls >= 1 =>
        /\ DocumentFirstLogLast
        /\ \A i, j \in 1..Len(writes) :
              i < j => StepOfTable(writes[i].table) <= StepOfTable(writes[j].table)

\* C21 as amended: the same order, with the ConflictRecords of victim
\* diversions inserted during the person step, before the location, event and
\* relationship writes; the ConflictRecords of detected conflicts come after the
\* relationship writes.
C21_WritesInStepOrder ==
    calls >= 1 =>
        /\ DocumentFirstLogLast
        /\ \A i, j \in 1..Len(writes) : i < j => StepOf(writes[i]) <= StepOf(writes[j])

\* C21 witness: a call diverted a person entry, then upserted a location,
\* inserted an event, upserted a relationship, inserted the ConflictRecord of a
\* detected conflict, and logged the run last
C21_Witness ==
    /\ calls >= 1
    /\ \E i, j, k, l, m \in 1..Len(writes) :
          /\ i < j /\ j < k /\ k < l /\ l < m
          /\ writes[i].table = "conflict_records"
          /\ writes[i].row["conflict_field"] = "victim_flag"
          /\ writes[j].table = "locations"
          /\ writes[k].table = "events"
          /\ writes[l].table = "person_relationships"
          /\ writes[m].table = "conflict_records"
          /\ writes[m].row["conflict_field"] # "victim_flag"
    /\ writes[Len(writes)].table = "agent_processing_log"

\* ------------------------------------- claims on the log and the batch result
\* the ProcessingLogEntries with status complete of the document of the URL u
CompleteRunsOn(u) ==
    IF DocumentRowsOf(u) = <<>> THEN <<>>
    ELSE SelectSeq(RunsOn(u), LAMBDA r : r["status"] = "complete")

\* the runs on the URL u that process_batch reports as success
SuccessesOn(u) ==
    { j \in 1..Len(batch_results) :
        batch_results[j].url = u /\ batch_results[j].status = "success" }

\* C22: between two documents of a batch, and when process_batch returns, the
\* store holds one ProcessingLogEntry with status complete for every run that
\* process_batch reports as success and for no other run: the complete entries
\* of each URL's document are as many as the success entries of that URL.
C22_CompleteLogExactlyOnSuccess ==
    pc = "fetch" =>
        \A u \in Urls : Len(CompleteRunsOn(u)) = Cardinality(SuccessesOn(u))

====
